----------------------------- MODULE FileTools ------------------------------
(***************************************************************************)
(* The file tools (mentra/src/tool/files): the staging of a call's         *)
(* operations, and the edits of one document.                              *)
(***************************************************************************)
EXTENDS Sequences, SequencesExt, FiniteSets, Integers

(***************************************************************************)
(* The files tool's editor (tool/files/workspace.rs, operations.rs): a     *)
(* call's operations are staged on an overlay over the disk, each seeing   *)
(* those before it, and committed together at the end.  A commit writes    *)
(* files and then deletes files, one at a time, and undoes what it did     *)
(* when one of these fails, except for the temporary file and the          *)
(* directories of a failing write.                                         *)
(*                                                                         *)
(* A path is the sequence of its names.  Contents are opaque; what edits   *)
(* do to them is in TextEdit.  Another process may write meanwhile.        *)
(***************************************************************************)

CONSTANTS PathOrder,   \* the paths of a behaviour, in the overlay's order
          Contents,    \* what a file may hold
          Writable,    \* the paths the policy lets the agent write
          MaxOps,      \* operations of a call
          Missing,     \* nothing there
          Dir,         \* a directory
          Unstaged     \* no overlay entry

WsPaths == Range(PathOrder)

ASSUME PathOrderAssumption == IsInjective(PathOrder) /\ Writable \subseteq WsPaths

VARIABLES wsDisk,      \* path -> Missing, Dir or contents
          overlay,   \* path -> Unstaged, Missing (a staged delete) or contents
          want,      \* what the operations so far make of the files, one by one
          before,    \* the disk when the call began, and the other process's write since
          originals, \* what the commit found under the overlay's paths
          edit_pc,   \* "staging", "writing", "deleting", "rollback", "committed", "failed", "refused"
          at,        \* the place in PathOrder the commit or the rollback has reached
          ops,       \* operations applied
          touched,   \* the path another process wrote
          undone,    \* FALSE once a rollback step has failed
          temps      \* the paths beside which a temporary file was left

wsVars == <<wsDisk, overlay, want, before, originals, edit_pc, at, ops, touched, undone, temps>>

IsAbove(p, q) == Len(p) < Len(q) /\ IsPrefix(p, q)
IsFile(x) == x \in Contents
FilesOf(d) == [p \in WsPaths |-> IF IsFile(d[p]) THEN d[p] ELSE Missing]

\* A disk in which what has something below it is a directory.
WellFormed(d) == \A p, q \in WsPaths : IsAbove(p, q) /\ d[q] # Missing => d[p] = Dir

WsTypeOK ==
    /\ wsDisk \in [WsPaths -> Contents \union {Missing, Dir}] /\ WellFormed(wsDisk)
    /\ overlay \in [WsPaths -> Contents \union {Missing, Unstaged}]
    /\ edit_pc \in {"staging", "writing", "deleting", "rollback", "committed", "failed", "refused"}
    /\ ops \in 0..MaxOps /\ temps \subseteq WsPaths

WsInit ==
    /\ wsDisk \in {d \in [WsPaths -> Contents \union {Missing, Dir}] :
                    WellFormed(d) /\ Cardinality({d[p] : p \in WsPaths} \intersect Contents) <= 1}
    /\ overlay = [p \in WsPaths |-> Unstaged]
    /\ want = FilesOf(wsDisk) /\ before = FilesOf(wsDisk)
    /\ originals = [p \in WsPaths |-> Unstaged]
    /\ edit_pc = "staging" /\ at = 1 /\ ops = 0 /\ touched = {} /\ undone = TRUE /\ temps = {}

-----------------------------------------------------------------------------
(* The overlay's view. *)

has_live_descendant(p) == \E q \in WsPaths : IsAbove(p, q) /\ IsFile(overlay[q])

\* What the file system says of a path, "error" when something above is a file.
Metadata(p) ==
    IF \E q \in WsPaths : IsAbove(q, p) /\ IsFile(wsDisk[q]) THEN "error"
    ELSE IF wsDisk[p] = Missing THEN "missing" ELSE IF wsDisk[p] = Dir THEN "dir" ELSE "file"

entry_kind(p) ==
    IF overlay[p] # Unstaged THEN (IF overlay[p] = Missing THEN "missing" ELSE "file")
    ELSE IF has_live_descendant(p) THEN "dir"
    ELSE Metadata(p)

load_file_bytes(p) == IF overlay[p] # Unstaged THEN overlay[p] ELSE wsDisk[p]

\* child_names: the disk's and the overlay's; the walk leaves out what is missing.
child_names(dir) ==
    {q \in WsPaths : /\ Len(q) = Len(dir) + 1 /\ IsPrefix(dir, q)
                     /\ wsDisk[q] # Missing \/ \E r \in WsPaths : overlay[r] # Unstaged /\ IsPrefix(q, r)}

\* walk_entries: the files and directories a list, a search or a glob visits,
\* to the deepest level the paths have.  It fails as a whole at a directory the
\* file system takes for a file, at a child the policy does not let the agent
\* read, there or not, and at one whose kind cannot be told.
WalkFails(dir, readable) ==
    \/ \E q \in WsPaths : IsFile(wsDisk[q]) /\ IsPrefix(q, dir)
    \/ \E q \in child_names(dir) : q \notin readable \/ entry_kind(q) = "error"
Visited(dirs) == {q \in UNION {child_names(d) : d \in dirs} : entry_kind(q) # "missing"}
walk_entries(dir, readable) ==
    LET one == Visited({dir})
        dirs == {q \in one : entry_kind(q) = "dir"}
    IN  IF WalkFails(dir, readable) \/ \E d \in dirs : WalkFails(d, readable) THEN [ok |-> FALSE, entries |-> {}]
        ELSE [ok |-> TRUE, entries |-> {<<q, entry_kind(q)>> : q \in one \union Visited(dirs)}]

-----------------------------------------------------------------------------
(* The operations. *)

\* resolve_path and authorize_write, then the operation's own condition; any
\* refusal fails the whole call with nothing committed.
Stage(changes) ==
    /\ edit_pc = "staging" /\ ops < MaxOps /\ ops' = ops + 1
    /\ overlay' = [p \in WsPaths |-> IF p \in DOMAIN changes THEN changes[p] ELSE overlay[p]]
    /\ want' = [p \in WsPaths |-> IF p \in DOMAIN changes THEN changes[p] ELSE want[p]]
    /\ UNCHANGED <<wsDisk, before, originals, edit_pc, at, touched, undone, temps>>

create(p, c) == p \in Writable /\ entry_kind(p) = "missing" /\ Stage(p :> c)

set(p, c) == p \in Writable /\ entry_kind(p) = "file" /\ Stage(p :> c)

write(p, c) == p \in Writable /\ entry_kind(p) \in {"missing", "file"} /\ Stage(p :> c)

\* replace, insert and edit read the file as the overlay has it and stage other
\* contents.
replace(p, c) ==
    /\ p \in Writable /\ entry_kind(p) = "file" /\ IsFile(load_file_bytes(p))
    /\ c # load_file_bytes(p)
    /\ Stage(p :> c)

move_path(p, q) ==
    /\ {p, q} \subseteq Writable
    /\ entry_kind(p) = "file" /\ entry_kind(q) = "missing"
    /\ edit_pc = "staging" /\ ops < MaxOps /\ ops' = ops + 1
    /\ overlay' = [overlay EXCEPT ![p] = Missing, ![q] = load_file_bytes(p)]
    /\ want' = [want EXCEPT ![q] = want[p], ![p] = Missing]
    /\ UNCHANGED <<wsDisk, before, originals, edit_pc, at, touched, undone, temps>>

delete(p) == p \in Writable /\ entry_kind(p) = "file" /\ Stage(p :> Missing)

\* An operation is refused: the editor is dropped with what it staged.
Refuse ==
    /\ edit_pc = "staging"
    /\ edit_pc' = "refused"
    /\ UNCHANGED <<wsDisk, overlay, want, before, originals, at, ops, touched, undone, temps>>

-----------------------------------------------------------------------------
(* The commit. *)

Staged == {p \in WsPaths : overlay[p] # Unstaged}

\* capture_original_state of every path first; a path whose state cannot be read
\* fails the call with nothing written.
commit ==
    /\ edit_pc = "staging" /\ ops > 0
    /\ IF \A p \in Staged : Metadata(p) \in {"missing", "file"}
       THEN /\ originals' = [p \in WsPaths |-> IF p \in Staged THEN wsDisk[p] ELSE Unstaged]
            /\ edit_pc' = "writing"
       ELSE edit_pc' = "refused" /\ UNCHANGED originals
    /\ at' = 1
    /\ UNCHANGED <<wsDisk, overlay, want, before, ops, touched, undone, temps>>

\* create_dir_all of the parent, a temporary file, and a rename over the path.
HasRoom(p) == \A q \in WsPaths : IsAbove(q, p) => ~IsFile(wsDisk[q])
CanWrite(p) == wsDisk[p] # Dir /\ HasRoom(p)
WithParents(p) == [q \in WsPaths |-> IF IsAbove(q, p) THEN Dir ELSE wsDisk[q]]
Written(p, c) == [WithParents(p) EXCEPT ![p] = c]

\* Any of the three may fail; what was made before it stays.
FailsToWrite(p) ==
    \/ UNCHANGED <<wsDisk, temps>>
    \/ HasRoom(p) /\ wsDisk' = WithParents(p) /\ temps' \in {temps, temps \union {p}}

commit_writes ==
    /\ edit_pc = "writing"
    /\ IF at > Len(PathOrder)
       THEN edit_pc' = "deleting" /\ at' = 1 /\ UNCHANGED <<wsDisk, temps>>
       ELSE LET p == PathOrder[at]
            IN  IF ~IsFile(overlay[p]) THEN at' = at + 1 /\ UNCHANGED <<wsDisk, edit_pc, temps>>
                ELSE \/ CanWrite(p) /\ wsDisk' = Written(p, overlay[p]) /\ at' = at + 1 /\ UNCHANGED <<edit_pc, temps>>
                     \/ FailsToWrite(p) /\ edit_pc' = "rollback" /\ at' = 1
    /\ UNCHANGED <<overlay, want, before, originals, ops, touched, undone>>

commit_deletes ==
    /\ edit_pc = "deleting"
    /\ IF at > Len(PathOrder)
       THEN edit_pc' = "committed" /\ UNCHANGED <<wsDisk, at>>
       ELSE LET p == PathOrder[at]
            IN  IF overlay[p] # Missing \/ wsDisk[p] = Missing THEN at' = at + 1 /\ UNCHANGED <<wsDisk, edit_pc>>
                ELSE \/ IsFile(wsDisk[p]) /\ wsDisk' = [wsDisk EXCEPT ![p] = Missing] /\ at' = at + 1 /\ UNCHANGED edit_pc
                     \/ edit_pc' = "rollback" /\ at' = 1 /\ UNCHANGED wsDisk
    /\ UNCHANGED <<overlay, want, before, originals, ops, touched, undone, temps>>

\* rollback: every captured path in order, up to the first that fails; that
\* failure is not reported, the commit's own is.
RestoreFile(p) ==
    IF originals[p] = Missing
    THEN IF wsDisk[p] = Missing THEN UNCHANGED wsDisk
         ELSE IsFile(wsDisk[p]) /\ wsDisk' = [wsDisk EXCEPT ![p] = Missing]
    ELSE CanWrite(p) /\ wsDisk' = Written(p, originals[p])

rollback ==
    /\ edit_pc = "rollback"
    /\ IF at > Len(PathOrder)
       THEN edit_pc' = "failed" /\ UNCHANGED <<wsDisk, at, undone, temps>>
       ELSE LET p == PathOrder[at]
            IN  IF originals[p] = Unstaged THEN at' = at + 1 /\ UNCHANGED <<wsDisk, edit_pc, undone, temps>>
                ELSE \/ RestoreFile(p) /\ at' = at + 1 /\ UNCHANGED <<edit_pc, undone, temps>>
                     \/ /\ IF IsFile(originals[p]) THEN FailsToWrite(p) ELSE UNCHANGED <<wsDisk, temps>>
                        /\ edit_pc' = "failed" /\ undone' = FALSE /\ UNCHANGED at
    /\ UNCHANGED <<overlay, want, before, originals, ops, touched>>

\* External: another process writes a file.
OtherWrites(p, c) ==
    /\ touched = {} /\ edit_pc \in {"staging", "writing", "deleting", "rollback"}
    /\ CanWrite(p) /\ c # wsDisk[p]
    /\ wsDisk' = Written(p, c)
    /\ touched' = {p}
    /\ want' = [want EXCEPT ![p] = IF overlay[p] = Unstaged THEN c ELSE @]
    /\ before' = [before EXCEPT ![p] = c]
    /\ UNCHANGED <<overlay, originals, edit_pc, at, ops, undone, temps>>

WsNext ==
    \/ \E p \in WsPaths, c \in Contents : create(p, c) \/ set(p, c) \/ write(p, c) \/ replace(p, c)
    \/ \E p, q \in WsPaths : move_path(p, q)
    \/ \E p \in WsPaths : delete(p)
    \/ Refuse \/ commit \/ commit_writes \/ commit_deletes \/ rollback
    \/ \E p \in WsPaths, c \in Contents : OtherWrites(p, c)

WsSpec == WsInit /\ [][WsNext]_wsVars

-----------------------------------------------------------------------------
(* Properties. *)

\* WorkspaceEditor::commit, over every failing step and with another process
\* writing: a committed call left the files as its operations, one after the
\* other, would have; one that failed left them as they were, unless undoing
\* failed too; only a path both wrote is excepted, and paths the call did not
\* name are as the other process left them.  Of the temporary files none stays
\* when the call succeeds or is refused, the one of the write that failed may, and
\* one more when undoing fails: nothing removes them.  Directories may stay.
BatchIsAtomic ==
    LET files == FilesOf(wsDisk)
        mine == WsPaths \ (touched \intersect Staged)
    IN  /\ edit_pc = "committed" => \A p \in mine : files[p] = want[p]
        /\ edit_pc = "failed" /\ undone => \A p \in mine : files[p] = before[p]
        /\ edit_pc = "refused" => \A p \in WsPaths : files[p] = before[p]
        /\ \A p \in WsPaths \ Staged : files[p] = before[p]
        /\ edit_pc \in {"committed", "refused"} => temps = {}
        /\ temps \subseteq Staged /\ Cardinality(temps) <= (IF undone THEN 1 ELSE 2)

\* The files tool tells the model that "later reads can observe earlier staged
\* writes": what a list, a search or a glob visits, and what a read returns, is what
\* the operations so far ask for, wherever nothing was staged above the path; and,
\* as the comment in walk_entries has it, no walk that succeeds has visited a path
\* the agent may not read.
ReadsSeeTheBatch ==
    edit_pc = "staging" =>
        \A readable \in SUBSET WsPaths :
            LET walk == walk_entries(<<>>, readable)
            IN  walk.ok =>
                  /\ \A e \in walk.entries : e[1] \in readable
                  /\ \A p \in WsPaths \ touched :
                        (\A q \in WsPaths : IsAbove(q, p) => overlay[q] = Unstaged)
                        => IF IsFile(want[p]) THEN <<p, "file">> \in walk.entries /\ load_file_bytes(p) = want[p]
                           ELSE <<p, "file">> \notin walk.entries

----------------------------------------------------------------------------
(***************************************************************************)
(* The edit tool's rewriting of one document                               *)
(* (tool/files/workspace/edit.rs): every old string is looked for in the   *)
(* document as it was, exactly and then line by line in a looser form, and *)
(* the ranges found are replaced together.                                 *)
(*                                                                         *)
(* A character is "x", "X" (a typographic variant of x), "_" (a blank),    *)
(* "n" (a line feed) or "rn" (a carriage return and a line feed).          *)
(***************************************************************************)

CONSTANTS Documents,   \* the documents a file may hold
          EditLists    \* the lists of edits a call may carry

VARIABLES document,    \* the file
          call_edits,  \* the edits asked for
          replace_all, \* every match, rather than the only one
          edited       \* what the call staged, NotStaged before it and when it fails

editVars == <<document, call_edits, replace_all, edited>>

Characters == {"x", "X", "_", "n", "rn"}
NotStaged == <<"none">>

EditTypeOK ==
    /\ document \in Seq(Characters) /\ edited \in Seq(Characters \union {"none"})
    /\ call_edits \in Seq([old : Seq(Characters), new : Seq(Characters)])
    /\ replace_all \in BOOLEAN

EditInit ==
    /\ document \in Documents /\ call_edits \in EditLists /\ replace_all \in BOOLEAN
    /\ edited = NotStaged

-----------------------------------------------------------------------------
(* Lines. *)

\* source.replace("\r\n", "\n"), for the document and for the texts of an edit.
normalize_edit_text(s) == [i \in DOMAIN s |-> IF s[i] = "rn" THEN "n" ELSE s[i]]

\* str::split('\n').
SplitLines(s) ==
    FoldLeft(LAMBDA lines, c : IF c = "n" THEN Append(lines, <<>>)
                               ELSE [lines EXCEPT ![Len(lines)] = Append(@, c)], << <<>> >>, s)
JoinLines(lines) ==
    FoldLeft(LAMBDA s, i : IF i = 1 THEN lines[1] ELSE s \o <<"n">> \o lines[i], <<>>,
             [i \in 1..Len(lines) |-> i])

\* line_spans: offsets of each line, of the end of its text and of its line feed.
Span(s, start, text) ==
    LET content_end == start + Len(text)
    IN  [start |-> start, content_end |-> content_end, text |-> text,
         full_end |-> IF content_end < Len(s) THEN content_end + 1 ELSE content_end]
SpansOf(s, lines) ==
    FoldLeft(LAMBDA spans, text : Append(spans, Span(s, IF spans = <<>> THEN 0 ELSE Last(spans).full_end, text)), <<>>, lines)
WithoutLast(s, lines) == IF s # <<>> /\ Last(s) = "n" THEN Front(lines) ELSE lines
line_spans(s) == SpansOf(s, WithoutLast(s, SplitLines(s)))

\* normalize_fuzzy_line: variants made plain, trailing blanks trimmed.
normalize_fuzzy_line(line) ==
    LET solid == {0} \union {i \in DOMAIN line : line[i] # "_"}
        last == CHOOSE i \in solid : \A j \in solid : j <= i
    IN  [i \in 1..last |-> IF line[i] = "X" THEN "x" ELSE line[i]]

-----------------------------------------------------------------------------
(* Matches. *)

\* exact_ranges: from left to right, without overlaps.
exact_ranges(s, needle) ==
    FoldLeft(LAMBDA found, i :
                IF /\ i + Len(needle) <= Len(s) /\ SubSeq(s, i + 1, i + Len(needle)) = needle
                   /\ found = <<>> \/ Last(found)[2] <= i
                THEN Append(found, <<i, i + Len(needle)>>) ELSE found,
             <<>>, [i \in 1..(Len(s) + 1) |-> i - 1])

\* fuzzy_ranges: windows of whole lines that agree once normalized.
FuzzyRanges(spans, wanted, trailing) ==
    LET last(i) == spans[i + Len(wanted) - 1]
        agrees(i) == /\ \A k \in DOMAIN wanted :
                           normalize_fuzzy_line(spans[i + k - 1].text) = normalize_fuzzy_line(wanted[k])
                     /\ trailing => last(i).full_end # last(i).content_end
        range(i) == <<spans[i].start, IF trailing THEN last(i).full_end ELSE last(i).content_end>>
    IN  FoldLeft(LAMBDA found, i : IF agrees(i) THEN Append(found, range(i)) ELSE found,
                 <<>>, [i \in 1..(Len(spans) - Len(wanted) + 1) |-> i])
fuzzy_ranges(s, needle) ==
    FuzzyRanges(line_spans(s), WithoutLast(needle, SplitLines(needle)), Last(needle) = "n")

\* overlay_fuzzy_replacement: a line the edit does not really change stays.
Overlaid(m, o, n, new) ==
    IF Len(m) # Len(o) \/ Len(o) # Len(n) THEN new
    ELSE JoinLines([i \in DOMAIN m |-> IF normalize_fuzzy_line(o[i]) = normalize_fuzzy_line(n[i]) THEN m[i] ELSE n[i]])
overlay_fuzzy_replacement(matched, old, new) == Overlaid(SplitLines(matched), SplitLines(old), SplitLines(new), new)

validate_edit(e) == e.old # <<>> /\ e.old # e.new

\* What the edit listed at k plans; empty when it is refused: not found, or not
\* unique.
Planned(s, e, k, all, ranges, fuzzy) ==
    IF ~all /\ Len(ranges) # 1 THEN <<>>
    ELSE [i \in DOMAIN ranges |->
            [start |-> ranges[i][1], end |-> ranges[i][2], edit_index |-> k,
             replacement |-> IF fuzzy
                             THEN overlay_fuzzy_replacement(SubSeq(s, ranges[i][1] + 1, ranges[i][2]), e.old, e.new)
                             ELSE e.new]]
FromExact(s, e, k, all, exact) ==
    IF exact = <<>> THEN Planned(s, e, k, all, fuzzy_ranges(s, e.old), TRUE) ELSE Planned(s, e, k, all, exact, FALSE)
PlannedReplacements(s, e, k, all) == FromExact(s, e, k, all, exact_ranges(s, e.old))

\* String::replace_range.
replace_range(s, p) == SubSeq(s, 1, p.start) \o p.replacement \o SubSeq(s, p.end + 1, Len(s))

\* The sort is stable: two at one place stay as they are listed.
Before(p, q) ==
    \/ p.start < q.start
    \/ p.start = q.start /\ (p.end < q.end \/ (p.end = q.end /\ p.edit_index < q.edit_index))

\* The planned replacements, sorted, refused when two overlap, applied from the
\* last to the first.
Overlap(sorted) == \E i \in 1..(Len(sorted) - 1) : sorted[i + 1].start < sorted[i].end
InOrder(s, sorted) == IF Overlap(sorted) THEN s ELSE FoldLeft(replace_range, s, sorted)
LastFirst(s, sorted) == IF Overlap(sorted) THEN s ELSE FoldLeft(replace_range, s, Reverse(sorted))
ApplyReplacements_Forward(s, plans) == InOrder(s, SortSeq(FlattenSeq(plans), Before))
ApplyReplacements(s, plans) == LastFirst(s, SortSeq(FlattenSeq(plans), Before))

\* restore_document: line endings as the document had them.
restore_document(s, crlf) == IF crlf THEN [i \in DOMAIN s |-> IF s[i] = "n" THEN "rn" ELSE s[i]] ELSE s

\* edit: refused for an edit that is refused, for overlaps, and for no change.
Updated(d, original, updated) ==
    IF updated = original THEN NotStaged ELSE restore_document(updated, \E i \in DOMAIN d : d[i] = "rn")
FromPlans(d, original, plans) ==
    IF \E i \in DOMAIN plans : plans[i] = <<>> THEN NotStaged
    ELSE Updated(d, original, ApplyReplacements(original, plans))
FromEdits(d, original, edits, all) ==
    IF edits = <<>> \/ \E i \in DOMAIN edits : ~validate_edit(edits[i]) THEN NotStaged
    ELSE FromPlans(d, original, [i \in DOMAIN edits |-> PlannedReplacements(original, edits[i], i, all)])
EditedText(d, es, all) ==
    FromEdits(d, normalize_edit_text(d),
              [i \in DOMAIN es |-> [old |-> normalize_edit_text(es[i].old), new |-> normalize_edit_text(es[i].new)]], all)

edit ==
    /\ edited = NotStaged
    /\ edited' = EditedText(document, call_edits, replace_all)
    /\ edited' # NotStaged
    /\ UNCHANGED <<document, call_edits, replace_all>>

EditNext == edit

EditSpec == EditInit /\ [][EditNext]_editVars

-----------------------------------------------------------------------------
(* Properties. *)

\* The pieces of a document that replacements leave alone and those they put in,
\* from left to right: what "replaced together" means.
Spliced(s, sorted) ==
    LET pieces == [i \in 1..(2 * Len(sorted) + 1) |->
                      IF i % 2 = 0 THEN sorted[i \div 2].replacement
                      ELSE SubSeq(s, IF i = 1 THEN 1 ELSE sorted[i \div 2].end + 1,
                                  IF i = 2 * Len(sorted) + 1 THEN Len(s) ELSE sorted[i \div 2 + 1].start)]
    IN  FlattenSeq(pieces)

\* All edits of a call are matched against the document as it was and replaced
\* together, what lies outside the ranges matched is kept character by character,
\* and a document whose lines all end alike keeps its line endings.  The order in
\* which the edits are listed matters in one case: blank texts that all matched
\* the same empty line put in what they have in that order.
EditsAreSimultaneous ==
    edited # NotStaged =>
        LET original == normalize_edit_text(document)
            plans == [i \in DOMAIN call_edits |->
                         PlannedReplacements(original, [old |-> normalize_edit_text(call_edits[i].old),
                                                        new |-> normalize_edit_text(call_edits[i].new)], i, replace_all)]
            all == FlattenSeq(plans)
            tied == \E i, j \in DOMAIN all : i # j /\ all[i].start = all[j].start /\ all[i].end = all[j].end
            ends == {document[i] : i \in DOMAIN document} \intersect {"n", "rn"}
        IN  /\ tied \/ EditedText(document, Reverse(call_edits), replace_all) = edited
            /\ normalize_edit_text(edited) = Spliced(original, SortSeq(all, Before))
            /\ {edited[i] : i \in DOMAIN edited} \intersect {"n", "rn"} # {"n", "rn"}
            /\ ends = {"n"} => ~\E i \in DOMAIN edited : edited[i] = "rn"
=============================================================================
