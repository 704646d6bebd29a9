----------------------------- MODULE Compaction -----------------------------
(***************************************************************************)
(* What a request carries of a long transcript (mentra/src/compaction):    *)
(* results shortened to a budget, and the transcript replaced by a         *)
(* summary.                                                                *)
(***************************************************************************)
EXTENDS Integers, Sequences, SequencesExt, FiniteSets

(***************************************************************************)
(* Request-only projection of tool results (memory/compaction.rs): what a  *)
(* request shows of the results in the history.  The legacy policy         *)
(* replaces all but the most recent ones by a marker; the byte budget      *)
(* first gives every result a floor, newest first, and then spends what is *)
(* left on whole recent bodies, on previews and on whole older bodies.     *)
(*                                                                         *)
(* A body is its number of bytes; its characters are all of one width.     *)
(* One iteration of each of the code's loops is one step.                  *)
(***************************************************************************)

CONSTANTS Histories,        \* sequences of results
          KeepRecents,      \* values of keep_recent_tool_results
          Budgets,          \* values of projected_tool_result_budget
          MinContentLen,    \* MICRO_COMPACT_MIN_CONTENT_LEN
          EllipsisLen,      \* OMITTED_ELLIPSIS.len()
          SeparatorLen      \* PREVIEW_SEPARATOR.len()

ASSUME LengthsAssumption == {MinContentLen, EllipsisLen, SeparatorLen} \subseteq Nat

VARIABLES canonical,   \* the results of the history, oldest first
          setting,     \* the policy the projection is asked for
          shown,       \* what each result is projected to
          remaining,   \* bytes of the budget not yet spent
          loop         \* the loop the projection is in, and its next index

projectionVars == <<canonical, setting, shown, remaining, loop>>

\* bytes of the body, whether it is text, bytes of its marker
\* ("[Previous: used {tool}]"), bytes of each of its characters.
ToolResult == [bytes : Nat, text : BOOLEAN, marker : Nat, width : Nat \ {0}]

\* How a result is shown: as it is, or by one of the elision actions.
Actions == {"whole", "marker", "preview", "omitted"}

Shown(action, bytes) == [action |-> action, bytes |-> bytes]

Whole(i) == Shown("whole", canonical[i].bytes)

Sum(s) == FoldLeft(LAMBDA total, x : total + x.bytes, 0, s)

ProjectionTypeOK ==
    /\ canonical \in Histories
    /\ \A i \in DOMAIN canonical : canonical[i] \in ToolResult
    /\ setting \in [keep : KeepRecents] \cup [budget : Budgets]
    /\ DOMAIN shown = DOMAIN canonical
    /\ \A i \in DOMAIN shown : shown[i] \in [action : Actions, bytes : Nat]
    /\ remaining \in Nat
    /\ loop.at \in 0..Len(canonical)
    /\ loop.in \in {"start", "floor", "recent", "preview", "historical", "done"}

ProjectionInit ==
    /\ canonical \in Histories
    /\ setting \in [keep : KeepRecents] \cup [budget : Budgets]
    /\ shown = [i \in DOMAIN canonical |-> Whole(i)]
    /\ remaining = 0
    /\ loop = [in |-> "start", at |-> 0]

Budgeted == "budget" \in DOMAIN setting

Budget == setting.budget

Enter(name, at) == loop' = [in |-> name, at |-> at]

Fixed == UNCHANGED <<canonical, setting>>

\* micro_compact_history: all but the last keep_recent results, those of
\* more than 100 bytes, become a marker.
micro_compact_history ==
    /\ loop.in = "start" /\ ~Budgeted
    /\ shown' = [i \in DOMAIN canonical |->
                    IF i <= Len(canonical) - setting.keep /\ canonical[i].bytes > MinContentLen
                    THEN Shown("marker", canonical[i].marker)
                    ELSE Whole(i)]
    /\ Enter("done", 0)
    /\ Fixed /\ UNCHANGED remaining

\* budget_tool_result_history: a history within the budget is left as it is.
budget_tool_result_history ==
    /\ loop.in = "start" /\ Budgeted
    /\ IF Sum(canonical) <= Budget.max_bytes
       THEN Enter("done", 0)
       ELSE Enter("floor", Len(canonical))
    /\ remaining' = Budget.max_bytes
    /\ Fixed /\ UNCHANGED shown

\* The loop has an index left; its next iteration, or the loop after it.
At(name) == loop.in = name /\ loop.at > 0

Ends(name, bound) == loop.in = name /\ loop.at <= bound

\* The floor of one result: itself when it is no longer than its marker, the
\* marker otherwise, and when that does not fit an ellipsis, or nothing.
EstablishFloor ==
    /\ At("floor")
    /\ LET i     == loop.at
           floor == IF canonical[i].bytes <= canonical[i].marker
                    THEN Whole(i)
                    ELSE Shown("marker", canonical[i].marker)
           least == IF floor.bytes <= remaining THEN floor
                    ELSE Shown("omitted", IF EllipsisLen <= remaining THEN EllipsisLen ELSE 0)
       IN  /\ shown' = [shown EXCEPT ![i] = least]
           /\ remaining' = remaining - least.bytes
           /\ Enter("floor", i - 1)
    /\ Fixed

\* try_restore_full: the whole body when the bytes it adds fit.
try_restore_full(i) ==
    LET delta == canonical[i].bytes - shown[i].bytes
    IN  IF shown[i].action # "whole" /\ delta \in 0..remaining
        THEN shown' = [shown EXCEPT ![i] = Whole(i)] /\ remaining' = remaining - delta
        ELSE UNCHANGED <<shown, remaining>>

\* The number of bytes of the longest prefix within a budget that does not
\* split a character.
CharBoundary(bytes, width) == bytes - (bytes % width)

\* text_preview: a head and a tail around the separator, 0 for None.
text_preview(result, current, allowance) ==
    LET Least(S) == CHOOSE n \in S : \A m \in S : n <= m
        limit  == Least({Budget.max_preview_bytes, allowance, result.bytes - 1})
        source == limit - SeparatorLen
        head   == CharBoundary((source + 1) \div 2, result.width)
        tail   == CharBoundary(source \div 2, result.width)
        size   == head + SeparatorLen + tail
    IN  IF /\ result.bytes > 0 /\ limit > current /\ limit > SeparatorLen
           /\ head > 0 /\ tail > 0 /\ head < result.bytes - tail
           /\ size > current /\ size < result.bytes
        THEN size ELSE 0

\* try_upgrade_preview: a text that is not whole gets a longer preview.
try_upgrade_preview(i) ==
    LET size == text_preview(canonical[i], shown[i].bytes, shown[i].bytes + remaining)
    IN  IF shown[i].action # "whole" /\ canonical[i].text /\ size > 0
        THEN /\ shown' = [shown EXCEPT ![i] = Shown("preview", size)]
             /\ remaining' = remaining - (size - shown[i].bytes)
        ELSE UNCHANGED <<shown, remaining>>

\* saturating_sub(prioritize_recent_results).
RecentStart == IF Budget.recent >= Len(canonical) THEN 0 ELSE Len(canonical) - Budget.recent

RestoreRecent ==
    /\ loop.in = "recent" /\ loop.at > RecentStart
    /\ try_restore_full(loop.at)
    /\ Enter("recent", loop.at - 1)
    /\ Fixed

UpgradePreview ==
    /\ At("preview")
    /\ try_upgrade_preview(loop.at)
    /\ Enter("preview", loop.at - 1)
    /\ Fixed

RestoreHistorical ==
    /\ At("historical")
    /\ try_restore_full(loop.at)
    /\ Enter("historical", loop.at - 1)
    /\ Fixed

NextLoop ==
    /\ \/ Ends("floor", 0) /\ Enter("recent", Len(canonical))
       \/ Ends("recent", RecentStart) /\ Enter("preview", Len(canonical))
       \/ Ends("preview", 0) /\ Enter("historical", RecentStart)
       \/ Ends("historical", 0) /\ Enter("done", 0)
    /\ Fixed /\ UNCHANGED <<shown, remaining>>

ProjectionNext ==
    \/ micro_compact_history
    \/ budget_tool_result_history
    \/ EstablishFloor
    \/ RestoreRecent \/ UpgradePreview \/ RestoreHistorical
    \/ NextLoop

ProjectionSpec == ProjectionInit /\ [][ProjectionNext]_projectionVars

---------------------------------------------------------------------------
(* Properties.                                                             *)

\* The budget is a hard cap on the bytes of all results together, at the end
\* of the projection and while it is made, and what it elides it elides for a
\* reason: a result that is not shown whole would not fit in the bytes left
\* over, whichever of the passes it met.
BudgetIsHardAndSpent ==
    Budgeted /\ loop.in \notin {"start", "floor"} =>
        /\ Sum(shown) <= Budget.max_bytes
        /\ loop.in = "done" =>
              \A i \in DOMAIN shown :
                  shown[i].action # "whole" =>
                      canonical[i].bytes - shown[i].bytes > Budget.max_bytes - Sum(shown)

\* A result that is shown otherwise than whole is shorter than it was, and a
\* preview is no longer than a preview may be.
ElisionShortens ==
    Budgeted => \A i \in DOMAIN shown :
        /\ shown[i].action # "whole" => shown[i].bytes < canonical[i].bytes
        /\ shown[i].action = "preview" => shown[i].bytes <= Budget.max_preview_bytes

----------------------------------------------------------------------------
(***************************************************************************)
(* One agent's summary compactions, from the check that starts one to the  *)
(* transcript it leaves: the bounds of the run, the snapshot of the        *)
(* transcript and the cleanup of older ones, the remote and the local      *)
(* summary, the retries, and the list of files that each summary hands on. *)
(*                                                                         *)
(* An item is its kind and the files its text names.  How many recent user *)
(* turns fit their token budget is left open; delegation results and the   *)
(* tree of the transcript are the business of module Transcript.           *)
(***************************************************************************)

CONSTANTS Files,           \* paths that tool exchanges name
          CompactModes,    \* subset of LocalOnly, PreferRemote and RemoteOnly
          Keep,            \* max_persisted_transcripts
          MaxAttempts,     \* AUTO_COMPACT_MAX_ATTEMPTS
          MaxItems,        \* bound: items in the transcript
          MaxSnapshots     \* bound: snapshots ever written

VARIABLES items,        \* the transcript
          compaction,   \* the compaction under way
          snapshots,    \* the snapshots in the directory, oldest first
          written,      \* snapshots ever written (their timestamps)
          tripped,      \* the run was cancelled, or its deadline passed
          supports,     \* the provider's supports_history_compaction
          named         \* history: the files tool exchanges ever named

compactionVars == <<items, compaction, snapshots, written, tripped, supports, named>>

Kinds_ == {"user", "assistant", "tool", "summary"}

Item(kind, files) == [kind |-> kind, files |-> files]

Items == [kind : Kinds_, files : SUBSET Files]

Stages == {"idle", "check", "snapshot", "cleanup", "remote", "local", "apply", "sleep"}

\* at: where the compaction is; attempt: of auto_compact_if_needed; usage:
\* samples of the provider passes; result: how the latest one ended.
Compaction == [at : Stages, mode : CompactModes, attempt : 0..MaxAttempts, usage : 0..2,
               asked : 0..2, path : 0..MaxSnapshots,
               result : {"none", "nothing", "applied", "degraded", "bound"}]

CompactionTypeOK ==
    /\ items \in Seq(Items) /\ Len(items) <= MaxItems + 1
    /\ compaction \in Compaction
    /\ snapshots \in Seq(1..MaxSnapshots)
    /\ written \in 0..MaxSnapshots
    /\ tripped \in BOOLEAN /\ supports \in BOOLEAN
    /\ named \subseteq Files

CompactionInit ==
    /\ items = <<Item("user", {})>>
    /\ \E mode \in CompactModes :
          compaction = [at |-> "idle", mode |-> mode, attempt |-> 0, usage |-> 0, asked |-> 0,
                        path |-> 0, result |-> "none"]
    /\ snapshots = <<>>
    /\ written = 0
    /\ tripped = FALSE
    /\ supports \in BOOLEAN
    /\ named = {}

---------------------------------------------------------------------------
(* The operators of the engine.                                            *)

LastItem == items[Len(items)]

ends_in_tool_exchange == LastItem.kind = "tool"

\* The items from this position on must stay together for the turn to go on.
required_tail_start ==
    IF Len(items) > 1 /\ LastItem.kind = "tool" /\ items[Len(items) - 1].kind = "assistant"
    THEN Len(items) - 1
    ELSE Len(items)

\* When the tail is the whole transcript and ends in a tool exchange it is
\* summarized as a unit.
TailAt == IF required_tail_start = 1 /\ ends_in_tool_exchange
          THEN Len(items) + 1
          ELSE required_tail_start

CompactedPrefix == SubSeq(items, 1, TailAt - 1)

\* The outcomes of select_recent_user_turns: the last n user turns of the
\* prefix, at least one when there is one.
select_recent_user_turns ==
    LET turns == SelectSeq(CompactedPrefix, LAMBDA item : item.kind = "user")
    IN  {SubSeq(turns, n, Len(turns)) : n \in 1..Len(turns)} \cup
        (IF turns = <<>> THEN {<<>>} ELSE {})

\* Files are looked for in tool exchanges only.
extract_context(s) == UNION {s[i].files : i \in {j \in DOMAIN s : s[j].kind = "tool"}}

\* The list the newest summary of the transcript holds.
carried_files ==
    LET at == {i \in DOMAIN items : items[i].kind = "summary"}
    IN  IF at = {} THEN {} ELSE items[CHOOSE i \in at : \A j \in at : j <= i].files

\* accumulate_files that derives the list anew.
accumulate_files_Fresh(carried, fresh) == fresh

accumulate_files(carried, fresh) == carried \cup fresh

\* cleanup_old_transcripts: the oldest go until Keep are left.
cleanup_old_transcripts(dir) ==
    IF Len(dir) <= Keep THEN dir ELSE SubSeq(dir, Len(dir) - Keep + 1, Len(dir))

---------------------------------------------------------------------------
(* Actions.                                                                *)

Go(fields) == compaction' = [f \in DOMAIN compaction |->
                                IF f \in DOMAIN fields THEN fields[f] ELSE compaction[f]]

Finish(result) == Go([at |-> "idle", result |-> result])

\* The conversation goes on; a new run brings bounds of its own.
Grow(kind, files) ==
    /\ compaction.at = "idle"
    /\ Len(items) < MaxItems
    /\ kind \in {"user", "assistant", "tool"}
    /\ kind # "tool" => files = {}
    /\ kind = "tool" => LastItem.kind = "assistant"
    /\ items' = Append(items, Item(kind, files))
    /\ named' = named \cup files
    /\ tripped' = (IF kind = "user" THEN FALSE ELSE tripped)
    /\ UNCHANGED <<compaction, snapshots, written, supports>>

\* CancellationToken::cancel, or the deadline passes.
Trip ==
    /\ ~tripped
    /\ tripped' = TRUE
    /\ UNCHANGED <<items, compaction, snapshots, written, supports, named>>

\* auto_compact_if_needed: the estimate is over the threshold.
auto_compact_if_needed ==
    /\ compaction.at = "idle"
    /\ written < MaxSnapshots
    /\ Go([at |-> "check", attempt |-> 1, usage |-> 0, asked |-> 0, result |-> "none"])
    /\ UNCHANGED <<items, snapshots, written, tripped, supports, named>>

\* compact up to the snapshot: nothing to summarize, or a bound reached.
CheckBounds ==
    /\ compaction.at = "check"
    /\ IF CompactedPrefix = <<>> THEN Finish("nothing")
       ELSE IF tripped THEN Finish("bound")
       ELSE Go([at |-> "snapshot"])
    /\ UNCHANGED <<items, snapshots, written, tripped, supports, named>>

\* What auto_compact_if_needed does with an error that is no bound: another
\* attempt after a delay when it can be retried, or the turn goes on as it is.
Degrade(retryable) ==
    IF retryable /\ compaction.attempt < MaxAttempts
    THEN Go([at |-> "sleep"])
    ELSE Finish("degraded")

\* persist_transcript: a file named by the clock; the write may fail.
persist_transcript ==
    /\ compaction.at = "snapshot"
    /\ \/ /\ written < MaxSnapshots
          /\ written' = written + 1
          /\ snapshots' = Append(snapshots, written + 1)
          /\ Go([at |-> "cleanup", path |-> written + 1])
       \/ Degrade(FALSE) /\ UNCHANGED <<snapshots, written>>
    /\ UNCHANGED <<items, tripped, supports, named>>

\* The cleanup, whose errors are ignored, and the choice of the first pass.
CleanUp ==
    /\ compaction.at = "cleanup"
    /\ snapshots' \in {cleanup_old_transcripts(snapshots), snapshots}
    /\ IF compaction.mode = "LocalOnly" \/ (compaction.mode = "PreferRemote" /\ ~supports)
       THEN Go([at |-> "local"])
       ELSE IF supports THEN Go([at |-> "remote"]) ELSE Degrade(FALSE)
    /\ UNCHANGED <<items, written, tripped, supports, named>>

\* guard: a bound that was reached before the request is not sent, and one
\* reached while it is out drops it; an answer that has arrived wins a tie.
BoundReached ==
    /\ compaction.at \in {"remote", "local"}
    /\ tripped
    /\ Finish("bound")
    /\ UNCHANGED <<items, snapshots, written, tripped, supports, named>>

\* The provider is asked.
Ask ==
    /\ compaction.at \in {"remote", "local"}
    /\ ~tripped
    /\ compaction.asked = compaction.usage
    /\ Go([asked |-> compaction.asked + 1])
    /\ UNCHANGED <<items, snapshots, written, tripped, supports, named>>

Answered == compaction.at \in {"remote", "local"} /\ compaction.asked > compaction.usage

\* compact_remotely: a summary, an answer without one, or an error, which
\* falls back to the local summary only when it says unsupported.
compact_remotely ==
    /\ Answered /\ compaction.at = "remote"
    /\ LET used == compaction.usage + 1 IN
       \/ Go([at |-> "apply", usage |-> used])
       \/ IF compaction.mode = "PreferRemote"
          THEN Go([at |-> "local", usage |-> used])
          ELSE Degrade(FALSE)
       \/ /\ compaction.mode = "PreferRemote"
          /\ Go([at |-> "local", asked |-> compaction.usage])
       \/ \E retryable \in BOOLEAN : Degrade(retryable)
    /\ UNCHANGED <<items, snapshots, written, tripped, supports, named>>

\* summarize_locally: any text becomes a summary, an empty one too.
summarize_locally ==
    /\ Answered /\ compaction.at = "local"
    /\ \/ Go([at |-> "apply", usage |-> compaction.usage + 1])
       \/ \E retryable \in BOOLEAN : Degrade(retryable)
    /\ UNCHANGED <<items, snapshots, written, tripped, supports, named>>

\* The delay before the next attempt, cut short by a bound.
RetryDelay ==
    /\ compaction.at = "sleep"
    /\ IF tripped THEN Finish("bound")
       ELSE Go([at |-> "check", attempt |-> compaction.attempt + 1, usage |-> 0, asked |-> 0])
    /\ UNCHANGED <<items, snapshots, written, tripped, supports, named>>

\* The outcome replaces the transcript: recent user turns, the summary with
\* its files, then the tail as it was.
ApplyOutcome ==
    /\ compaction.at = "apply"
    /\ \E turns \in select_recent_user_turns :
          items' = turns
                      \o <<Item("summary", accumulate_files(carried_files, extract_context(CompactedPrefix)))>>
                      \o SubSeq(items, TailAt, Len(items))
    /\ Finish("applied")
    /\ UNCHANGED <<snapshots, written, tripped, supports, named>>

CompactionNext ==
    \/ \E kind \in Kinds_, files \in SUBSET Files : Grow(kind, files)
    \/ Trip
    \/ auto_compact_if_needed
    \/ CheckBounds
    \/ persist_transcript
    \/ CleanUp
    \/ BoundReached
    \/ Ask
    \/ compact_remotely \/ summarize_locally
    \/ RetryDelay
    \/ ApplyOutcome

CompactionSpec == CompactionInit /\ [][CompactionNext]_compactionVars

---------------------------------------------------------------------------
(* Properties.                                                             *)

\* However often the transcript is compacted, every file a tool exchange ever
\* named is in a tool exchange that is still there or in the newest summary:
\* the list only grows, across summaries of summaries.
FilesAreCarried ==
    named \subseteq (carried_files \cup extract_context(items))

\* Of every step: a compaction of a run that is over its bounds sends nothing to a provider,
\* and the transcript changes only by a turn or by a whole outcome: giving up
\* leaves it as it was.
BoundsAreHonoured ==
    /\ tripped => compaction'.asked <= compaction.asked
    /\ items' # items => \/ compaction.at = "idle"
                         \/ compaction.at = "apply" /\ compaction'.result = "applied"
=============================================================================
