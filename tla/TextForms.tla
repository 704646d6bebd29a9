----------------------------- MODULE TextForms ------------------------------
(***************************************************************************)
(* Text that is cut or read by rule: the limits on what a tool returns,    *)
(* and the front matter of skill files.                                    *)
(***************************************************************************)
EXTENDS Integers, Sequences, FiniteSets, FiniteSetsExt, SequencesExt

(***************************************************************************)
(* What a tool's output loses on its way to the model: read_capped keeps   *)
(* the two ends of a stream while it is read in chunks of any size, the    *)
(* tool output limiter keeps the two ends of a text, and the pager shows a *)
(* long result in windows that the model asks for one by one.              *)
(*                                                                         *)
(* A text is the sequence of its lines' lengths, newline included.  A      *)
(* position is a byte of it.  The limits are chosen small in the instance; *)
(* the constants below stand for the code's thresholds.                    *)
(***************************************************************************)

CONSTANTS Texts_,              \* sequences of line lengths
          Caps,                \* byte limits: of a stream, a result, a page
          LineCaps,            \* line limits of a result
          MarkerReserve,       \* ELISION_MARKER_RESERVE
          MarkerLength,        \* bytes of the elision marker
          MinCapTwoWindows,    \* MIN_CAP_FOR_TWO_WINDOWS, MIN_BYTES_FOR_TWO_WINDOWS
          MinLinesTwoWindows,  \* MIN_LINES_FOR_TWO_WINDOWS
          BoundaryWindow       \* TAIL_LINE_BOUNDARY_WINDOW

ASSUME MarkerAssumption == /\ MarkerLength \in Nat /\ MarkerReserve \in Nat
                           /\ MarkerLength <= MarkerReserve
                           /\ MarkerReserve < MinCapTwoWindows

VARIABLES text_,     \* the output
          limit,     \* the limits in force
          reading,   \* read_capped: bytes read, head, tail, bytes dropped
          pages      \* the pager: windows shown, as <<first, last, cut>>

outputVars == <<text_, limit, reading, pages>>

\* Bytes of the first n lines.
Upto(n) == MapThenSumSet(LAMBDA i : text_[i], 1..n)
Size_ == Upto(Len(text_))
Newlines == {Upto(n) : n \in DOMAIN text_}

Reading == [read : Nat, head : Nat, tail : Nat, elided : Nat]

OutputTypeOK ==
    /\ text_ \in Texts_
    /\ limit \in [bytes : Caps, lines : LineCaps]
    /\ reading \in Reading
    /\ pages \in Seq(Nat \X Nat \X BOOLEAN)

OutputInit ==
    /\ text_ \in Texts_
    /\ limit \in [bytes : Caps, lines : LineCaps]
    /\ reading = [read |-> 0, head |-> 0, tail |-> 0, elided |-> 0]
    /\ pages = <<>>

Lower(a, b) == IF a <= b THEN a ELSE b

-----------------------------------------------------------------------------
(* read_capped: head and tail are numbers of bytes, of the start of the    *)
(* stream and of what has been read of it.                                 *)

TwoWindows == limit.bytes >= MinCapTwoWindows
HeadBudget == IF TwoWindows THEN (limit.bytes - MarkerReserve) \div 2 ELSE limit.bytes
TailBudget == IF TwoWindows THEN (limit.bytes - MarkerReserve) - HeadBudget ELSE 0

\* Keeping the last bytes seen, with a chunk as long as the budget counted
\* without the tail it replaces.
keep_tail_Uncounted(r, n) ==
    IF TailBudget = 0 THEN [r EXCEPT !.elided = @ + n]
    ELSE IF n >= TailBudget
    THEN [r EXCEPT !.elided = @ + (n - TailBudget), !.tail = TailBudget]
    ELSE LET overflow == IF r.tail + n > TailBudget THEN r.tail + n - TailBudget ELSE 0
         IN  [r EXCEPT !.elided = @ + overflow, !.tail = @ - overflow + n]

keep_tail(r, n) ==
    IF TailBudget = 0 THEN [r EXCEPT !.elided = @ + n]
    ELSE IF n >= TailBudget
    THEN [r EXCEPT !.elided = @ + r.tail + (n - TailBudget), !.tail = TailBudget]
    ELSE LET overflow == IF r.tail + n > TailBudget THEN r.tail + n - TailBudget ELSE 0
         IN  [r EXCEPT !.elided = @ + overflow, !.tail = @ - overflow + n]

\* One read of n bytes: the head first, the rest to the tail.
read_capped(n) ==
    /\ n \in 1..(Size_ - reading.read)
    /\ LET take == Lower(HeadBudget - reading.head, n)
           after == [reading EXCEPT !.read = @ + n, !.head = @ + take]
       IN  reading' = IF n = take THEN after ELSE keep_tail(after, n - take)
    /\ UNCHANGED <<text_, limit, pages>>

\* Where the kept tail starts on a line, when a newline is close enough to
\* its first byte and is not its last.
TailBoundary ==
    LET first == Size_ - reading.tail
        near == {i \in 1..Lower(BoundaryWindow, reading.tail) : first + i \in Newlines}
    IN  IF near = {} \/ Min(near) = reading.tail THEN 0 ELSE Min(near)

\* The bytes handed over, and what the marker says is missing.
Captured ==
    IF reading.elided = 0 THEN [bytes |-> reading.head + reading.tail, missing |-> 0]
    ELSE IF reading.tail = 0 THEN [bytes |-> reading.head, missing |-> reading.elided]
    ELSE [bytes |-> reading.head + MarkerLength + (reading.tail - TailBoundary),
          missing |-> reading.elided + TailBoundary]

-----------------------------------------------------------------------------
(* ToolOutputLimiter::apply_text: how many lines of each end are shown.    *)

Oversized == Size_ > limit.bytes \/ Len(text_) > limit.lines

\* windows: the budgets of the head and of the tail.
windows ==
    IF limit.bytes < MinCapTwoWindows \/ limit.lines < MinLinesTwoWindows
    THEN [headBytes |-> limit.bytes, headLines |-> limit.lines, tailBytes |-> 0, tailLines |-> 0]
    ELSE [headBytes |-> limit.bytes \div 2, headLines |-> limit.lines \div 2,
          tailBytes |-> limit.bytes - limit.bytes \div 2,
          tailLines |-> limit.lines - limit.lines \div 2]

ShownHead ==
    Max({n \in 0..Len(text_) : n <= windows.headLines /\ Upto(n) <= windows.headBytes})

ShownTail ==
    Max({n \in 0..Len(text_) : /\ n <= windows.tailLines
                               /\ Size_ - Upto(Len(text_) - n) <= windows.tailBytes
                               /\ Upto(Len(text_) - n) >= Upto(ShownHead)})

-----------------------------------------------------------------------------
(* ToolResultPager: the page is limit.bytes, at least one.                 *)

PageBytes == IF limit.bytes = 0 THEN 1 ELSE limit.bytes

\* cut: the whole lines from start that fit in a page, or the beginning of
\* one line that is longer than a page.
cut(start) ==
    LET fits == {n \in start..Len(text_) : Upto(n) - Upto(start - 1) <= PageBytes}
    IN  IF fits = {} THEN <<start, start, TRUE>> ELSE <<start, Max(fits), FALSE>>

NextLine == IF pages = <<>> THEN 1 ELSE pages[Len(pages)][2] + 1

\* first_page of a result over the threshold, then read_tool_result with the
\* line the last trailer names, until the end marker.
window ==
    /\ reading.read = Size_
    /\ Oversized
    /\ NextLine <= Len(text_)
    /\ pages' = Append(pages, cut(NextLine))
    /\ UNCHANGED <<text_, limit, reading>>

OutputNext == \/ \E n \in 1..Size_ : read_capped(n)
              \/ window

OutputSpec == OutputInit /\ [][OutputNext]_outputVars

-----------------------------------------------------------------------------
(* Properties.                                                             *)

\* However a stream's bytes are cut into reads, what is kept of it fits the
\* cap with its marker, and the marker accounts for every byte that is not.
CaptureIsExact ==
    reading.read = Size_ =>
        /\ Captured.bytes <= limit.bytes
        /\ Captured.missing > 0 <=> Size_ > HeadBudget + TailBudget
        /\ Captured.missing =
              Size_ - (Captured.bytes - IF Captured.missing > 0 /\ reading.tail > 0
                                        THEN MarkerLength ELSE 0)

\* A text that is cut shows no line twice and stays within both its limits;
\* following the trailers shows every line of the result once and in order,
\* each window within a page and each line whole unless it is longer than one.
WindowsAddUp ==
    /\ Oversized =>
          /\ ShownHead + ShownTail <= Lower(Len(text_), limit.lines)
          /\ Upto(ShownHead) + (Size_ - Upto(Len(text_) - ShownTail)) <= limit.bytes
    /\ \A i \in DOMAIN pages :
          /\ pages[i][1] = IF i = 1 THEN 1 ELSE pages[i - 1][2] + 1
          /\ pages[i][1] <= pages[i][2]
          /\ IF pages[i][3] THEN pages[i][1] = pages[i][2] /\ text_[pages[i][1]] > PageBytes
             ELSE Upto(pages[i][2]) - Upto(pages[i][1] - 1) <= PageBytes

----------------------------------------------------------------------------
(***************************************************************************)
(* Skill files: splitting a file at its frontmatter, reading the block of  *)
(* `key: value` lines (frontmatter.rs), and loading a directory of         *)
(* SKILL.md files (runtime/skill.rs).                                      *)
(*                                                                         *)
(* Text is a sequence of tokens: "nl", "cr", "tab", "sp", "dq" (a double   *)
(* quote), "sq" (a single one), "bs" (a backslash), "hash", "colon",       *)
(* "dash", "bracket" (a character that begins no plain value), "ctl" (any  *)
(* other control character), "hex" (its four digits), "bom", "---" and     *)
(* words.                                                                  *)
(***************************************************************************)

CONSTANTS Drafts,      \* how the first file of the root is written
          Folders,     \* the root's directories, in path order
          NoValue

VARIABLES draft,     \* what the author of the first file meant, and how it is written
          second,    \* the declared name of the second file's skill, or none
          loaded     \* SkillLoader: its skills by name, or why loading failed

frontVars == <<draft, second, loaded>>

Keys == {"name", "description", "disable-model-invocation", "disable_model_invocation"}
Blank == {"sp", "tab", "cr", "nl"}
TrimEnd(s, cs) == SubSeq(s, 1, SelectLastInSeq(s, LAMBDA c : c \notin cs))
From(s, i) == IF i = 0 THEN <<>> ELSE SubSeq(s, i, Len(s))
TrimStart(s, cs) == From(s, SelectInSeq(s, LAMBDA c : c \notin cs))
Trim(s) == TrimStart(TrimEnd(s, Blank), Blank)
Starts(s, cs) == s # <<>> /\ Head(s) \in cs

Bad(why) == [bad |-> why]
IsBad(r) == DOMAIN r = {"bad"}

-----------------------------------------------------------------------------
(* Splitting the file *)

\* split_inclusive('\n').
Segments(s) ==
    LET add(acc, c) == IF acc = <<>> \/ Last(Last(acc)) = "nl" THEN Append(acc, <<c>>)
                       ELSE [acc EXCEPT ![Len(acc)] = Append(@, c)]
    IN FoldLeft(add, <<>>, s)

WithoutBom(raw) == IF Starts(raw, {"bom"}) THEN Tail(raw) ELSE raw

\* scan: a leading `---` line opens, the next bare one closes.
ClosedAt(segments, close) ==
    IF close = 0 THEN Bad("unterminated")
    ELSE [front |-> SubSeq(segments, 1, close - 1),
          body |-> FlattenSeq(SubSeq(segments, close + 1, Len(segments)))]
Opened(segments) == ClosedAt(segments, SelectInSeq(segments, LAMBDA s : TrimEnd(s, {"nl", "cr"}) = <<"---">>))
ScanRaw(raw) ==
    IF \E e \in {<<"nl">>, <<"cr", "nl">>} : IsPrefix(<<"---">> \o e, raw)
    THEN Opened(Tail(Segments(raw))) ELSE [front |-> NoValue, body |-> raw]
scan(file) == ScanRaw(WithoutBom(file))

-----------------------------------------------------------------------------
(* Values *)

Text(out) == [kind |-> "Text", text |-> out]
Null == [kind |-> "Null", text |-> <<>>]

\* trailing: only blanks and a comment may follow a closing quote.
Ended(rest) == rest = <<>> \/ Starts(rest, {"hash"})
Closed(s) == IF s.mode = "closed" /\ Ended(TrimStart(s.rest, Blank)) THEN Text(s.out) ELSE Bad("quote")

Escapes == [dq |-> "dq", bs |-> "bs", n |-> "nl", t |-> "tab", r |-> "cr"]

\* double_quoted: to the closing quote, reading escapes.
double_quoted(inner) ==
    LET step(s, c) ==
            CASE s.mode = "text" /\ c = "dq" -> [s EXCEPT !.mode = "closed"]
              [] s.mode = "text" /\ c = "bs" -> [s EXCEPT !.mode = "escape"]
              [] s.mode = "text" -> [s EXCEPT !.out = Append(@, c)]
              [] s.mode = "escape" /\ c \in DOMAIN Escapes -> [s EXCEPT !.mode = "text", !.out = Append(@, Escapes[c])]
              [] s.mode = "escape" /\ c = "u" -> [s EXCEPT !.mode = "hex"]
              [] s.mode = "hex" /\ c = "hex" -> [s EXCEPT !.mode = "text", !.out = Append(@, "ctl")]
              [] s.mode = "closed" -> [s EXCEPT !.rest = Append(@, c)]
              [] OTHER -> [s EXCEPT !.mode = "bad"]
    IN Closed(FoldLeft(step, [mode |-> "text", out |-> <<>>, rest |-> <<>>], inner))

\* single_quoted: two quotes are one.
single_quoted(inner) ==
    LET step(s, c) ==
            CASE s.mode = "text" /\ c = "sq" -> [s EXCEPT !.mode = "closed"]
              [] s.mode = "text" -> [s EXCEPT !.out = Append(@, c)]
              [] s.mode = "closed" /\ s.rest = <<>> /\ c = "sq" -> [s EXCEPT !.mode = "text", !.out = Append(@, "sq")]
              [] OTHER -> [s EXCEPT !.rest = Append(@, c)]
    IN Closed(FoldLeft(step, [mode |-> "text", out |-> <<>>, rest |-> <<>>], inner))

\* scalar: a plain value runs to a ` #` comment.
Uncommented(text, comments) ==
    IF comments = {} THEN text ELSE TrimEnd(SubSeq(text, 1, Min(comments) - 1), Blank)
PlainScalar(plain) ==
    CASE plain \in {<<"true">>, <<"false">>} -> [kind |-> "Bool", text |-> plain]
      [] plain = <<"null">> -> Null
      [] OTHER -> Text(plain)
scalar(text) ==
    CASE text = <<>> -> Null
      [] Starts(text, {"dq"}) -> double_quoted(Tail(text))
      [] Starts(text, {"sq"}) -> single_quoted(Tail(text))
      [] Starts(text, {"bracket"}) -> Bad("unread")
      [] OTHER -> PlainScalar(Uncommented(text, {i \in 1 .. Len(text) - 1 : text[i] = "sp" /\ text[i + 1] = "hash"}))

\* quote: a double-quoted value that parse reads back exactly.
quote(value) ==
    LET escape(c) == CASE c = "dq" -> <<"bs", "dq">> [] c = "bs" -> <<"bs", "bs">> [] c = "nl" -> <<"bs", "n">>
                       [] c = "tab" -> <<"bs", "t">> [] c = "cr" -> <<"bs", "r">> [] c = "ctl" -> <<"bs", "u", "hex">>
                       [] OTHER -> <<c>>
    IN <<"dq">> \o FlattenSeq([i \in DOMAIN value |-> escape(value[i])]) \o <<"dq">>

-----------------------------------------------------------------------------
(* The block *)

Get(fields, key) == SelectSeq(fields, LAMBDA f : f.key = key)

\* One line of parse: skipped, a field more, or why it is refused.
AddField(fields, key, value) ==
    IF IsBad(value) THEN value ELSE [entries |-> Append(fields.entries, [key |-> key, value |-> value])]
parse_field(fields, key, rest) ==
    IF Len(key) # 1 \/ ~Starts(key, Keys) THEN Bad("key")
    ELSE IF rest # <<>> /\ ~Starts(rest, {"sp", "tab"}) THEN Bad("no space")
    ELSE IF Get(fields.entries, key[1]) # <<>> THEN Bad("twice")
    ELSE AddField(fields, key[1], scalar(Trim(rest)))
parse_trimmed(fields, line, trimmed, colon) ==
    IF IsBad(fields) \/ trimmed = <<>> \/ Starts(trimmed, {"hash"}) THEN fields
    ELSE IF Starts(line, {"sp", "tab"}) THEN Bad("indented")
    ELSE IF IsPrefix(<<"dash", "sp">>, trimmed) \/ trimmed = <<"dash">> THEN Bad("list")
    ELSE IF colon = 0 THEN Bad("no key")
    ELSE parse_field(fields, Trim(SubSeq(line, 1, colon - 1)), SubSeq(line, colon + 1, Len(line)))
parse_ended(fields, line) == parse_trimmed(fields, line, Trim(line), SelectInSeq(line, LAMBDA c : c = "colon"))
parse_line(fields, raw) == parse_ended(fields, TrimEnd(raw, {"nl", "cr"}))

parse_block(block) == FoldLeft(parse_line, [entries |-> <<>>], block)

\* Fields::text, and Fields::boolean.
TextOf(found) == IF found = <<>> \/ found[1].value.kind = "Null" THEN NoValue ELSE found[1].value.text
text_of(fields, key) == TextOf(Get(fields.entries, key))

AsBoolean(text) ==
    CASE text = NoValue -> NoValue [] text = <<"true">> -> TRUE [] text = <<"false">> -> FALSE
      [] OTHER -> Bad("boolean")
boolean_of(fields, key) == AsBoolean(text_of(fields, key))

FirstOf(one, two) == IF one # NoValue THEN one ELSE IF two # NoValue THEN two ELSE FALSE
\* boolean_any, and FALSE when the block has neither spelling.
boolean_any(fields, first, then) == FirstOf(boolean_of(fields, first), boolean_of(fields, then))

-----------------------------------------------------------------------------
(* Loading a root *)

\* parse_skill_file: a file without frontmatter is all body, as it stands.
Metadata(fields, hidden, body) ==
    IF hidden \notin BOOLEAN THEN hidden
    ELSE [name |-> text_of(fields, "name"), about |-> text_of(fields, "description"), hidden |-> hidden, body |-> body]
FromFields(fields, body) ==
    IF IsBad(fields) THEN fields
    ELSE Metadata(fields, boolean_any(fields, "disable-model-invocation", "disable_model_invocation"), body)
FromScanned(raw, scanned) ==
    IF IsBad(scanned) THEN scanned
    ELSE IF scanned.front = NoValue THEN [name |-> NoValue, about |-> NoValue, hidden |-> FALSE, body |-> raw]
    ELSE FromFields(parse_block(scanned.front), scanned.body)
parse_skill_file(raw) == FromScanned(raw, scan(raw))

\* A skill is named by its frontmatter, or else after its directory.
SkillName(meta, folder) ==
    IF meta.name # NoValue /\ Trim(meta.name) # <<>> THEN Trim(meta.name) ELSE <<folder>>

\* from_dir: the files in path order; the first fault ends it, and so does a
\* name that was taken.
AddNamed(skills, meta, name) ==
    IF \E e \in skills.entries : e.name = name THEN [skills EXCEPT !.why = "duplicate"]
    ELSE [skills EXCEPT !.entries = @ \union
             {[name |-> name, about |-> IF meta.about = NoValue THEN <<>> ELSE Trim(meta.about),
               invocable |-> ~meta.hidden, body |-> meta.body]}]
AddSkill(skills, meta, folder) ==
    IF skills.why # "none" THEN skills
    ELSE IF IsBad(meta) THEN [skills EXCEPT !.why = meta.bad]
    ELSE AddNamed(skills, meta, SkillName(meta, folder))
AllOrNone(skills) == IF skills.why = "none" THEN skills ELSE [skills EXCEPT !.entries = {}]
from_dir(files) ==
    AllOrNone(FoldLeft(LAMBDA skills, i : AddSkill(skills, parse_skill_file(files[i]), Folders[i]),
                   [entries |-> {}, why |-> "none"], [i \in DOMAIN files |-> i]))

\* The file an author writes: a description through quote, the flag in one
\* of its spellings, whatever the line endings.
Written(d) ==
    LET line(key, value) == <<key, "colon", "sp">> \o value \o d.eol
    IN (IF d.bom THEN <<"bom">> ELSE <<>>) \o <<"---">> \o d.eol
       \o (IF d.name THEN line("name", <<"x">>) ELSE <<>>) \o <<"hash", "colon">> \o d.eol
       \o line("description", quote(d.about))
       \o (IF d.flag = "none" THEN <<>> ELSE line(d.flag, d.value))
       \o <<"---">> \o (IF d.body = NoValue THEN <<>> ELSE d.eol \o d.body)

\* The second file: plain markdown, or a name and a value no reader takes.
Second == CASE second = "bare" -> <<"bom", "x">>
            [] second = "open" -> <<"---", "nl", "x">>
            [] second = "list" -> <<"---", "nl", "dash", "sp", "x", "nl", "---">>
            [] second = "twice" -> <<"---", "nl", "name", "colon", "nl", "name", "colon", "nl", "---">>
            [] second = "single" -> <<"---", "nl", "name", "colon", "sp", "sq", "x", "sq", "sq", "sq", "nl", "---">>
            [] OTHER -> <<"---", "nl", "name", "colon", "sp", "x", "sp", "hash", "x", "nl", "---">>

FrontInit ==
    /\ draft \in Drafts /\ second \in {"bare", "open", "list", "twice", "single", "named"}
    /\ loaded = [entries |-> {}, why |-> "unread"]

Load == loaded.why = "unread" /\ loaded' = from_dir(<<Written(draft), Second>>) /\ UNCHANGED <<draft, second>>

FrontNext == Load

FrontSpec == FrontInit /\ [][FrontNext]_frontVars

-----------------------------------------------------------------------------
\* What was loaded, and why it stopped.
FrontTypeOK == loaded.why \in {"unread", "none", "unterminated", "list", "twice", "duplicate"}

\* A skill is loaded as its author meant it: the description reads back exactly
\* whatever it holds, the flag counts in either spelling, and the body is what
\* follows the block; two skills of a root never share a name, and a root with
\* a file that cannot be read is refused whole
\* (frontmatter.rs, quote and parse; runtime/skill.rs, from_dir).
WrittenIsRead ==
    /\ loaded.why = "none" =>
          [name |-> IF draft.name THEN <<"x">> ELSE <<Folders[1]>>, about |-> Trim(draft.about),
           invocable |-> draft.flag = "none" \/ \E i \in DOMAIN draft.value : draft.value[i] = "false",
           body |-> IF draft.body = NoValue THEN <<>> ELSE draft.body] \in loaded.entries
    /\ loaded.why = "none" <=> (second \in {"bare", "single"} \/ (second = "named" /\ ~draft.name))
                               /\ loaded.why # "unread"
=============================================================================
