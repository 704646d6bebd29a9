---------------------------- MODULE StreamDecode ----------------------------
(***************************************************************************)
(* How a streamed model response becomes a message.                        *)
(*                                                                         *)
(* Each wire protocol has a decoder that turns what the endpoint sends     *)
(* into provider events: Responses (responses/sse.rs), Anthropic           *)
(* (anthropic/sse.rs, stream_model.rs), Gemini (gemini/sse.rs) and chat    *)
(* completions (chat_completions/sse.rs); a response collected whole is    *)
(* turned back into events by response.rs.  Two collectors assemble the    *)
(* events: PendingAssistantTurn (mentra/src/agent/pending.rs), which the   *)
(* agent runs on, and StreamingResponseBuilder (response.rs).              *)
(*                                                                         *)
(* The endpoint is external: it says the content of a block in pieces, and *)
(* `said' remembers what it said.  A text is a sequence of pieces.  The    *)
(* last piece of a tool call's arguments is Close, so arguments parse      *)
(* exactly when they end in their only Close.                              *)
(***************************************************************************)
EXTENDS Naturals, Sequences, FiniteSets, SequencesExt, TLC

CONSTANTS Indices,      \* positions of blocks in a response
          MaxPieces     \* pieces of one block

VARIABLES wire, phase, said, dec, turn, resp

decodeVars == <<wire, phase, said, dec, turn, resp>>

Close == 0
Break == 9        \* the blank line between two parts of a reasoning summary
TextSlot == 10    \* chat completions: the text and the reasoning of the
ThinkSlot == 11   \* choice; its tool calls are numbered from 0

Wires == {"responses", "anthropic", "gemini", "chat", "whole"}

(***************************************************************************)
(* The provider-neutral events.                                            *)
(***************************************************************************)
MessageStarted == [e |-> "message_started"]
BlockStarted(i, kind, extra) ==
    [e |-> "block_started", i |-> i, kind |-> kind, extra |-> extra]
Delta(i, as, p) == [e |-> "delta", i |-> i, as |-> as, p |-> p]
BlockStopped(i) == [e |-> "block_stopped", i |-> i]
MessageStopped == [e |-> "message_stopped"]

\* The deltas a block of each kind takes.
DeltasOf(kind) ==
    CASE kind = "text" -> {"text"}
      [] kind = "thinking" -> {"thinking", "signature", "encrypted"}
      [] kind = "tool" -> {"input"}
      [] kind = "result" -> {"result"}
      [] kind = "search" -> {"query", "status"}
      [] kind = "web" -> {"action", "status"}
      [] kind = "picture" -> {"prompt", "artifact", "status"}

\* The delta that carries the pieces of a block of each kind.
Main(kind) ==
    CASE kind = "tool" -> "input" [] kind = "search" -> "query"
      [] kind = "picture" -> "prompt" [] kind = "web" -> "action" [] OTHER -> kind

(***************************************************************************)
(* The two collectors.                                                     *)
(***************************************************************************)
NewTurn == [started |-> FALSE, stopped |-> FALSE, failed |-> FALSE,
            blocks |-> <<>>, invalid |-> {}]

NewBlock(event) == [kind |-> event.kind, content |-> <<>>,
                    extra |-> event.extra, complete |-> FALSE]

\* serde_json::from_str on a tool call's arguments.
Parses(input) == input # <<>> /\ \A k \in DOMAIN input : (input[k] = Close) <=> (k = Len(input))

Collected(block, delta, replaced) ==
    IF delta.as \in {"text", "thinking", "input", "query", "prompt", "result"}
    THEN [block EXCEPT !.content = IF delta.as \in replaced THEN delta.p ELSE @ \o delta.p]
    ELSE [block EXCEPT !.extra = @ \cup {delta.as}]

\* A delta or a stop for a block that never started, and a delta of another
\* kind of block, are MalformedProviderEvent / MalformedStream.
Apply(t, event, replaced) ==
    CASE t.failed -> t
      [] event.e = "message_started" -> [t EXCEPT !.started = TRUE]
      [] event.e = "block_started" ->
            [t EXCEPT !.blocks = (event.i :> NewBlock(event)) @@ @]
      [] event.e = "delta" ->
            IF event.i \in DOMAIN t.blocks /\ event.as \in DeltasOf(t.blocks[event.i].kind)
            THEN [t EXCEPT !.blocks[event.i] = Collected(@, event, replaced)]
            ELSE [t EXCEPT !.failed = TRUE]
      [] event.e = "block_stopped" ->
            IF event.i \in DOMAIN t.blocks
            THEN [t EXCEPT !.blocks[event.i].complete = TRUE]
            ELSE [t EXCEPT !.failed = TRUE]
      [] event.e = "message_stopped" -> [t EXCEPT !.stopped = TRUE]

\* PendingAssistantTurn::apply: a hosted call's query and an image's prompt are
\* replaced by the delta; a tool call whose arguments do not parse when its
\* block stops is set aside.
apply_pending(t, event) ==
    LET after == Apply(t, event, {"query", "prompt"})
        unreadable == /\ event.e = "block_stopped" /\ ~after.failed
                      /\ after.blocks[event.i].kind = "tool"
                      /\ ~Parses(after.blocks[event.i].content)
    IN IF unreadable THEN [after EXCEPT !.invalid = @ \cup {event.i}] ELSE after

\* StreamingResponseBuilder::apply appends them.
apply_builder(t, event) == Apply(t, event, {})

Ended(t) == /\ t.stopped /\ t.started /\ ~t.failed
            /\ \A i \in DOMAIN t.blocks : t.blocks[i].complete

\* PendingAssistantTurn::to_message leaves unreadable calls out;
\* StreamingResponseBuilder::build fails on one.
to_message(t) == [i \in {j \in DOMAIN t.blocks : t.blocks[j].kind = "tool" => Parses(t.blocks[j].content)}
                    |-> t.blocks[i]]

Builds(t) == Ended(t) /\ DOMAIN to_message(t) = DOMAIN t.blocks

\* Mutant: a stopped call is ready whatever its arguments are.
ready_tool_calls_Unread(t) ==
    {i \in DOMAIN t.blocks : t.blocks[i].kind = "tool" /\ t.blocks[i].complete}

ready_tool_calls(t) ==
    {i \in DOMAIN t.blocks : /\ t.blocks[i].kind = "tool" /\ t.blocks[i].complete
                             /\ Parses(t.blocks[i].content)}

(***************************************************************************)
(* One stream of each wire.                                                *)
(***************************************************************************)
NewDecoder ==
    [responses |-> [ignored |-> {}, seen |-> {}, encSeen |-> {}, reasoning |-> {}],
     anthropic |-> [ignored |-> {}, searches |-> {}],
     gemini |-> [started |-> FALSE, stopped |-> FALSE, open |-> {}, snapshots |-> <<>>],
     chat |-> [started |-> FALSE, finished |-> FALSE, next |-> 0, at |-> <<>>, open |-> <<>>],
     whole |-> [given |-> FALSE]]

DecodeInit ==
    /\ wire \in Wires
    /\ phase = "open"
    /\ said = <<>>
    /\ dec = NewDecoder[wire]
    /\ turn = NewTurn
    /\ resp = NewTurn

\* forward_events: every event goes to the collectors, in order.
Forward(out) ==
    /\ turn' = FoldLeft(apply_pending, turn, out)
    /\ resp' = FoldLeft(apply_builder, resp, out)
    /\ UNCHANGED wire

Live(w) == wire = w /\ phase = "open"

\* An error ends the stream: it is the last thing the collectors see.
StreamFails(w) ==
    /\ Live(w)
    /\ phase' = "errored"
    /\ UNCHANGED <<wire, said, dec, turn, resp>>

\* The endpoint adds the next piece of a block.
NextPiece(i) == IF said[i].kind = "tool" /\ Len(said[i].content) = MaxPieces - 1
                THEN Close ELSE Len(said[i].content) + 1
MaySay(i) == Len(said[i].content) < MaxPieces
Whole(kind) == IF kind = "tool" THEN [k \in 1..MaxPieces |-> IF k = MaxPieces THEN Close ELSE k]
               ELSE [k \in 1..MaxPieces |-> k]
NewSaid(kind) == [kind |-> kind, content |-> <<>>, open |-> TRUE, sealed |-> FALSE, parts |-> <<>>]

(***************************************************************************)
(* Responses.  One set `seen' stands for text_delta_seen,                  *)
(* function_delta_seen, tool_search_delta_seen and reasoning_delta_seen:   *)
(* an output item has one kind, so an index is in at most one of them.     *)
(***************************************************************************)
ResponseCreated ==
    /\ Live("responses") /\ ~turn.started
    /\ Forward(<<MessageStarted>>)
    /\ UNCHANGED <<phase, said, dec>>

OutputItems == {"text", "thinking", "tool", "search", "web", "picture", "unsupported"}

\* ResponseOutputItemAdded; the encrypted form of a reasoning item may come
\* with it (sealed), with the finished item, or with the finished response.
ResponseOutputItemAdded(i, kind, sealed) ==
    /\ Live("responses") /\ turn.started /\ ~turn.stopped /\ i \notin DOMAIN said
    /\ sealed => kind = "thinking"
    /\ said' = (i :> [NewSaid(kind) EXCEPT !.sealed = sealed]) @@ said
    /\ dec' = [dec EXCEPT !.reasoning = IF kind = "thinking" THEN @ \cup {i} ELSE @,
                          !.encSeen = IF sealed THEN @ \cup {i} ELSE @,
                          !.ignored = IF kind = "unsupported" THEN @ \cup {i} ELSE @]
    /\ Forward(IF kind = "unsupported" THEN <<>>
               ELSE <<BlockStarted(i, kind, IF sealed THEN {"encrypted"} ELSE {})>>)
    /\ UNCHANGED phase

\* A delta of an ignored item, and a reasoning delta that names no item, say
\* nothing about a block.
DeltaOf(i, named) == i \notin dec.ignored /\ named

\* ResponseOutputTextDelta, ResponseReasoningSummaryTextDelta,
\* ResponseReasoningTextDelta, ResponseFunctionCallArgumentsDelta and
\* ResponseToolSearchCallDelta.  An endpoint names the item of all of an
\* item's deltas or of none.
ResponseDelta(i, named) ==
    /\ Live("responses") /\ i \in DOMAIN said /\ said[i].open /\ MaySay(i)
    /\ said[i].kind \notin {"web", "picture"}
    /\ ~named => said[i].kind = "thinking"
    /\ said[i].content # <<>> => (named <=> i \in dec.seen \cup dec.ignored)
    /\ said' = [said EXCEPT ![i].content = Append(@, NextPiece(i))]
    /\ dec' = [dec EXCEPT !.seen = IF DeltaOf(i, named) THEN @ \cup {i} ELSE @]
    /\ Forward(IF DeltaOf(i, named) THEN <<Delta(i, Main(said[i].kind), <<NextPiece(i)>>)>> ELSE <<>>)
    /\ UNCHANGED phase

\* ResponseReasoningSummaryPartDone
ResponseReasoningSummaryPartDone(i) ==
    /\ Live("responses") /\ i \in DOMAIN said /\ said[i].open /\ said[i].kind = "thinking"
    /\ i \in dec.seen /\ Last(turn.blocks[i].content) # Break
    /\ Forward(<<Delta(i, "thinking", <<Break>>)>>)
    /\ UNCHANGED <<phase, said, dec>>

\* ResponsesOutputItem::completion_deltas
completion_deltas(i, kind, sealed) ==
    CASE kind = "search" -> <<Delta(i, "status", <<>>)>>
      [] kind = "thinking" /\ sealed -> <<Delta(i, "encrypted", <<>>)>>
      [] kind = "web" -> <<Delta(i, "action", <<>>), Delta(i, "status", <<>>)>>
      [] kind = "picture" -> <<Delta(i, "artifact", <<>>), Delta(i, "status", <<>>)>>
      [] OTHER -> <<>>

\* ResponseOutputItemDone carries the whole item: what no delta said is a
\* delta of its own.  An item whose content was streamed repeats it.
ResponseOutputItemDone(i, content, sealed) ==
    /\ Live("responses") /\ i \in DOMAIN said /\ said[i].open
    /\ content = (IF said[i].content # <<>> THEN said[i].content
                  ELSE IF said[i].kind = "web" THEN <<>> ELSE content)
    /\ sealed => said[i].kind = "thinking"
    /\ said' = [said EXCEPT ![i].content = content, ![i].open = FALSE, ![i].sealed = @ \/ sealed]
    /\ dec' = [dec EXCEPT !.ignored = @ \ {i}, !.seen = @ \ {i},
                          !.encSeen = IF sealed THEN @ \cup {i} ELSE @]
    /\ Forward(IF i \in dec.ignored THEN <<>>
               ELSE (IF i \in dec.seen \/ content = <<>> THEN <<>>
                     ELSE <<Delta(i, Main(said[i].kind), content)>>)
                    \o completion_deltas(i, said[i].kind, sealed) \o <<BlockStopped(i)>>)
    /\ UNCHANGED phase

\* StreamState::backfill_reasoning_encrypted_content
backfill_reasoning_encrypted_content(late) ==
    LET missing == SetToSeq((late \cap dec.reasoning) \ dec.encSeen)
    IN [k \in DOMAIN missing |-> Delta(missing[k], "encrypted", <<>>)]

\* ResponseCompleted and ResponseIncomplete; `late' are the reasoning items
\* whose encrypted form the response carries.
ResponseCompleted(late) ==
    /\ Live("responses") /\ turn.started /\ ~turn.stopped
    /\ \A i \in DOMAIN said : ~said[i].open
    /\ late \subseteq {i \in DOMAIN said : said[i].kind = "thinking"}
    /\ said' = [i \in DOMAIN said |-> IF i \in late THEN [said[i] EXCEPT !.sealed = TRUE] ELSE said[i]]
    /\ dec' = [dec EXCEPT !.encSeen = @ \cup (late \cap dec.reasoning)]
    /\ Forward(backfill_reasoning_encrypted_content(late) \o <<MessageStopped>>)
    /\ UNCHANGED phase

(***************************************************************************)
(* Anthropic.                                                              *)
(***************************************************************************)
MessageStart ==
    /\ Live("anthropic") /\ ~turn.started
    /\ Forward(<<MessageStarted>>)
    /\ UNCHANGED <<phase, said, dec>>

\* A server tool other than tool search is supported and starts no block.
StreamBlocks == {"text", "thinking", "redacted", "tool", "search", "server_tool", "unsupported"}

AnthropicStarted(i, kind) ==
    CASE kind = "redacted" -> <<BlockStarted(i, "thinking", {}), Delta(i, "signature", <<>>)>>
      [] kind \in {"server_tool", "unsupported"} -> <<>>
      [] OTHER -> <<BlockStarted(i, kind, {})>>

ContentBlockStart(i, kind) ==
    /\ Live("anthropic") /\ turn.started /\ ~turn.stopped /\ i \notin DOMAIN said
    /\ said' = (i :> NewSaid(kind)) @@ said
    /\ dec' = [dec EXCEPT !.ignored = IF kind = "unsupported" THEN @ \cup {i} ELSE @,
                          !.searches = IF kind = "search" THEN @ \cup {i} ELSE @]
    /\ Forward(AnthropicStarted(i, kind))
    /\ UNCHANGED phase

\* A delta's kind is the wire's; input_json_delta is a query for a tool
\* search and tool input for everything else.
AnthropicDelta(kind) ==
    CASE kind \in {"tool", "server_tool"} -> "input" [] OTHER -> Main(kind)

ContentBlockDelta(i) ==
    /\ Live("anthropic") /\ i \in DOMAIN said /\ said[i].open /\ MaySay(i)
    /\ said[i].kind # "redacted"
    /\ said' = [said EXCEPT ![i].content = Append(@, NextPiece(i))]
    /\ Forward(IF i \in dec.ignored THEN <<>>
               ELSE <<Delta(i, IF i \in dec.searches THEN "query" ELSE AnthropicDelta(said[i].kind),
                            <<NextPiece(i)>>)>>)
    /\ UNCHANGED <<phase, dec>>

ContentBlockStop(i) ==
    /\ Live("anthropic") /\ i \in DOMAIN said /\ said[i].open
    /\ said' = [said EXCEPT ![i].open = FALSE]
    /\ dec' = [dec EXCEPT !.ignored = @ \ {i}, !.searches = @ \ {i}]
    /\ Forward(IF i \in dec.ignored THEN <<>> ELSE <<BlockStopped(i)>>)
    /\ UNCHANGED phase

MessageStop ==
    /\ Live("anthropic") /\ turn.started /\ ~turn.stopped
    /\ \A i \in DOMAIN said : ~said[i].open
    /\ Forward(<<MessageStopped>>)
    /\ UNCHANGED <<phase, said, dec>>

(***************************************************************************)
(* Gemini: a chunk lists the parts of the response by position, each       *)
(* either all of its text so far or the next stretch of it (`style').      *)
(***************************************************************************)
\* merge_chunk: <<the new snapshot, what it adds>>
merge_chunk(previous, current) ==
    CASE current = <<>> \/ current = previous -> <<previous, <<>> >>
      [] previous # <<>> /\ IsPrefix(previous, current) ->
            <<current, SubSeq(current, Len(previous) + 1, Len(current))>>
      [] OTHER -> <<previous \o current, current>>

Snapshot(i) == IF i \in DOMAIN dec.snapshots THEN dec.snapshots[i] ELSE <<>>

\* ensure_text_block_started / ensure_tool_block_started and the part's delta.
Part(i, part) ==
    LET added == merge_chunk(Snapshot(i), part.s)[2]
    IN (IF i \in dec.open THEN <<>> ELSE <<BlockStarted(i, part.kind, {})>>)
       \o (IF added = <<>> THEN <<>> ELSE <<Delta(i, Main(part.kind), added)>>)

\* close_all_blocks, in index order
close_all_blocks(open) ==
    LET order == SetToSortSeq(open, <) IN [k \in DOMAIN order |-> BlockStopped(order[k])]

Parts == {[kind |-> "text", s |-> s] : s \in {<<1>>, <<2>>, <<1, 2>>, <<1, 1>>}}
         \cup {[kind |-> "tool", s |-> <<1, Close>>]}

\* What the endpoint means by a part, in each style.
SaidOf(i) == IF i \in DOMAIN said THEN said[i].content ELSE <<>>
Means(i, part, style) == IF style = "snapshot" \/ part.kind = "tool" THEN part.s ELSE SaidOf(i) \o part.s
Consistent(i, part, style) ==
    /\ Len(Means(i, part, style)) <= MaxPieces
    /\ style = "snapshot" => IsPrefix(SaidOf(i), part.s)
    /\ i \in DOMAIN said => said[i].open /\ Len(said[i].parts) < MaxPieces

\* parse_frame on a chunk with a candidate.
GeminiChunk(parts, style, finish) ==
    /\ Live("gemini") /\ ~turn.stopped
    /\ \A i \in DOMAIN parts : Consistent(i, parts[i], style)
    /\ \A i \in DOMAIN said : said[i].kind # "text" \/ said[i].style = style
    /\ LET open == dec.open \cup DOMAIN parts
           out == FoldLeft(LAMBDA acc, i : acc \o Part(i, parts[i]), <<>>, SetToSortSeq(DOMAIN parts, <))
       IN /\ said' = [i \in DOMAIN said \cup DOMAIN parts |->
                        IF i \in DOMAIN parts
                        THEN [NewSaid(parts[i].kind) EXCEPT !.content = Means(i, parts[i], style),
                                                            !.open = ~finish,
                                                            !.parts = IF i \in DOMAIN said
                                                                      THEN Append(said[i].parts, parts[i])
                                                                      ELSE <<parts[i]>>]
                             @@ [style |-> style]
                        ELSE [said[i] EXCEPT !.open = ~finish]]
          /\ dec' = [started |-> TRUE, stopped |-> finish,
                     open |-> IF finish THEN {} ELSE open,
                     snapshots |-> IF finish THEN <<>>
                                   ELSE [i \in DOMAIN parts |-> merge_chunk(Snapshot(i), parts[i].s)[1]]
                                        @@ dec.snapshots]
          /\ Forward((IF dec.started THEN <<>> ELSE <<MessageStarted>>) \o out
                     \o (IF finish THEN Append(close_all_blocks(open), MessageStopped) ELSE <<>>))
    /\ UNCHANGED phase

\* parse_frame on a chunk with prompt feedback and no candidate.
PromptFeedback ==
    /\ Live("gemini") /\ ~turn.stopped
    /\ dec' = [dec EXCEPT !.started = TRUE, !.stopped = TRUE, !.open = {}, !.snapshots = <<>>]
    /\ said' = [i \in DOMAIN said |-> [said[i] EXCEPT !.open = FALSE]]
    /\ Forward((IF dec.started THEN <<>> ELSE <<MessageStarted>>)
               \o Append(close_all_blocks(dec.open), MessageStopped))
    /\ UNCHANGED phase

(***************************************************************************)
(* Chat completions: flat deltas.  `at' gives the block of the text, of    *)
(* the reasoning and of each of the wire's tool calls.                     *)
(***************************************************************************)
SlotKind(slot) == CASE slot = TextSlot -> "text" [] slot = ThinkSlot -> "thinking" [] OTHER -> "tool"

\* One delta of a choice: <<decoder, events>>; `p' is empty for a tool call
\* whose arguments have not begun.
SlotDelta(d, slot, p) ==
    LET fresh == slot \notin DOMAIN d.at
        index == IF fresh THEN d.next ELSE d.at[slot]
    IN << IF fresh THEN [d EXCEPT !.next = @ + 1, !.at = (slot :> index) @@ @, !.open = Append(@, index)]
          ELSE d,
          (IF fresh THEN <<BlockStarted(index, SlotKind(slot), {})>> ELSE <<>>)
          \o (IF p = <<>> THEN <<>> ELSE <<Delta(index, Main(SlotKind(slot)), p)>>) >>

ChatPiece(slot) == IF slot \in DOMAIN said THEN NextPiece(slot) ELSE 1

\* apply_chunk; `slots' are the parts of the choice the chunk has a delta for,
\* in the order the code takes them: reasoning, text, tool calls.
ChatChunk(slots, bare) ==
    /\ Live("chat") /\ ~dec.finished
    /\ \A k \in DOMAIN slots : slots[k] \in DOMAIN said => MaySay(slots[k])
    /\ bare => slots # <<>> /\ Last(slots) \notin {TextSlot, ThinkSlot}
               /\ Last(slots) \notin DOMAIN said
    /\ LET P(k) == IF bare /\ k = Len(slots) THEN <<>> ELSE <<ChatPiece(slots[k])>>
           step == FoldLeft(LAMBDA acc, k : LET one == SlotDelta(acc[1], slots[k], P(k))
                                            IN <<one[1], acc[2] \o one[2]>>,
                            <<[dec EXCEPT !.started = TRUE],
                              IF dec.started THEN <<>> ELSE <<MessageStarted>> >>,
                            [k \in DOMAIN slots |-> k])
           Spoken(slot) == P(CHOOSE k \in DOMAIN slots : slots[k] = slot)
       IN /\ dec' = step[1]
          /\ said' = [slot \in DOMAIN said \cup ToSet(slots) |->
                        IF slot \notin ToSet(slots) THEN said[slot]
                        ELSE IF slot \in DOMAIN said
                        THEN [said[slot] EXCEPT !.content = @ \o Spoken(slot)]
                        ELSE [NewSaid(SlotKind(slot)) EXCEPT !.content = Spoken(slot)]]
          /\ Forward(step[2])
    /\ UNCHANGED phase

\* StreamState::finish
finish_events(d) ==
    IF d.finished THEN <<>>
    ELSE (IF d.started THEN <<>> ELSE <<MessageStarted>>)
         \o [k \in DOMAIN d.open |-> BlockStopped(d.open[k])] \o <<MessageStopped>>

\* [DONE]
Done ==
    /\ Live("chat") /\ ~dec.finished
    /\ Forward(finish_events(dec))
    /\ dec' = [dec EXCEPT !.started = TRUE, !.finished = TRUE, !.open = <<>>]
    /\ UNCHANGED <<phase, said>>

(***************************************************************************)
(* A response collected whole: Response::into_provider_events.             *)
(***************************************************************************)
into_provider_events(i, kind, content) ==
    <<BlockStarted(i, kind, IF kind = "thinking" THEN {"encrypted"} ELSE {})>>
    \o (IF content = <<>> \/ kind \notin {"text", "thinking", "tool"} THEN <<>>
        ELSE <<Delta(i, Main(kind), content)>>)
    \o (IF kind = "thinking" THEN <<Delta(i, "signature", <<>>)>> ELSE <<>>)
    \o <<BlockStopped(i)>>

WholeKinds == {"text", "thinking", "tool", "result", "web"}
WholeContent(kind) == IF kind \in {"result", "web"} THEN <<>> ELSE Whole(kind)

FromResponse(kinds) ==
    /\ Live("whole") /\ ~dec.given
    /\ dec' = [given |-> TRUE]
    /\ said' = [i \in DOMAIN kinds |-> [NewSaid(kinds[i]) EXCEPT !.content = WholeContent(kinds[i]),
                                                                !.sealed = kinds[i] = "thinking",
                                                                !.open = FALSE]]
    /\ Forward(<<MessageStarted>>
               \o FoldLeft(LAMBDA acc, i : acc \o into_provider_events(i, kinds[i], WholeContent(kinds[i])),
                           <<>>, SetToSortSeq(DOMAIN kinds, <))
               \o <<MessageStopped>>)
    /\ UNCHANGED phase

(***************************************************************************)
(* The connection closes, at any point.  A Gemini stream cut short is an   *)
(* error; a chat stream is finished as if it had said [DONE]; the others   *)
(* just end.                                                               *)
(***************************************************************************)
CloseStream ==
    /\ phase = "open"
    /\ phase' = IF wire = "gemini" /\ dec.started /\ ~dec.stopped THEN "errored" ELSE "ended"
    /\ IF wire = "chat"
       THEN /\ Forward(finish_events(dec))
            /\ dec' = [dec EXCEPT !.started = TRUE, !.finished = TRUE, !.open = <<>>]
       ELSE UNCHANGED <<wire, dec, turn, resp>>
    /\ UNCHANGED said

Functions2(S, T) == UNION {[D -> T] : D \in SUBSET S}

DecodeNext ==
    \/ ResponseCreated
    \/ \E i \in Indices, kind \in OutputItems, sealed \in BOOLEAN : ResponseOutputItemAdded(i, kind, sealed)
    \/ \E i \in Indices, named \in BOOLEAN : ResponseDelta(i, named)
    \/ \E i \in Indices : ResponseReasoningSummaryPartDone(i)
    \/ \E i \in DOMAIN said, sealed \in BOOLEAN :
         \E content \in {<<>>, said[i].content, Whole(said[i].kind)} : ResponseOutputItemDone(i, content, sealed)
    \/ \E late \in SUBSET Indices : ResponseCompleted(late)
    \/ MessageStart
    \/ \E i \in Indices, kind \in StreamBlocks : ContentBlockStart(i, kind)
    \/ \E i \in Indices : ContentBlockDelta(i) \/ ContentBlockStop(i)
    \/ MessageStop
    \/ \E parts \in Functions2(Indices, Parts), style \in {"snapshot", "stretch"}, finish \in BOOLEAN :
         GeminiChunk(parts, style, finish)
    \/ PromptFeedback
    \/ \E slots \in {<<>>, <<ThinkSlot>>, <<TextSlot>>, <<0>>, <<1>>, <<ThinkSlot, TextSlot>>,
                     <<TextSlot, 0>>, <<0, 1>>}, bare \in BOOLEAN : ChatChunk(slots, bare)
    \/ Done
    \/ \E kinds \in Functions2(Indices, WholeKinds) : FromResponse(kinds)
    \/ \E w \in {"responses", "anthropic", "gemini"} : StreamFails(w)
    \/ CloseStream

-----------------------------------------------------------------------------
IndexOf(slot) == IF wire = "chat" THEN dec.at[slot] ELSE slot

BlockKind(kind) == IF kind = "redacted" THEN "thinking" ELSE kind

\* An endpoint that sends stretches of text in which one begins with all that
\* came before it (or repeats it) is read as if it had sent snapshots.
Ambiguous(s) ==
    /\ wire = "gemini" /\ s.style = "stretch" /\ s.kind = "text"
    /\ \E k \in 2..Len(s.parts) :
         IsPrefix(FoldLeft(LAMBDA acc, j : acc \o s.parts[j].s, <<>>, [j \in 1..(k - 1) |-> j]), s.parts[k].s)

\* Two parts of different kinds at one position of a Gemini response.
Clashes(s) == wire = "gemini" /\ \E k \in DOMAIN s.parts : s.parts[k].kind # s.parts[1].kind

Claimed(s) == /\ s.kind \in {"text", "thinking", "tool"} /\ ~Ambiguous(s)
              /\ s.kind = "tool" => Parses(s.content)

Shown == {slot \in DOMAIN said : said[slot].kind \notin {"unsupported", "server_tool"}}

(***************************************************************************)
(* A response that is assembled says what the endpoint said: when a stream *)
(* has ended and the agent's collector accepts it, every block holds the   *)
(* pieces the endpoint said, each once and in order, a reasoning block     *)
(* holds its encrypted form if any event carried it, and no block is made  *)
(* up.  Tool calls whose arguments never finished are left out.  A hosted  *)
(* search keeps only the last delta of its query (pending_block.rs), so    *)
(* its content is not claimed.                                             *)
(***************************************************************************)
AssembledIsSaid ==
    phase = "ended" /\ Ended(turn) =>
        LET message == to_message(turn) IN
        /\ \A slot \in {t \in Shown : Claimed(said[t])} :
             /\ IndexOf(slot) \in DOMAIN message
             /\ message[IndexOf(slot)].kind = BlockKind(said[slot].kind)
             /\ SelectSeq(message[IndexOf(slot)].content, LAMBDA p : p # Break) = said[slot].content
             /\ said[slot].sealed => "encrypted" \in message[IndexOf(slot)].extra
        /\ \A i \in DOMAIN message : \E slot \in Shown : IndexOf(slot) = i

(***************************************************************************)
(* Only a whole tool call is run: a call the agent's collector reports     *)
(* ready, at any moment of any stream, has the arguments the endpoint      *)
(* finished saying, and the two collectors differ on it only in that the   *)
(* builder refuses a response with an unreadable call that the pending     *)
(* turn sets aside.                                                        *)
(***************************************************************************)
OnlyWholeCallsRun ==
    /\ \A i \in ready_tool_calls(turn) :
         \E slot \in DOMAIN said : /\ IndexOf(slot) = i /\ said[slot].kind = "tool"
                                   /\ Parses(said[slot].content)
                                   /\ turn.blocks[i].content = said[slot].content
    /\ Ended(turn) => (Builds(resp) <=> turn.invalid = {})

(***************************************************************************)
(* The decoders keep the collectors' rules: the collectors refuse a stream *)
(* in only two cases, an Anthropic server tool that is not tool search     *)
(* (its deltas name a block that never started, stream_model.rs:110) and a *)
(* Gemini response with parts of two kinds at one position (sse.rs:133).   *)
(***************************************************************************)
DecodedIsWellFormed ==
    turn.failed => \/ wire = "anthropic" /\ \E i \in DOMAIN said : said[i].kind = "server_tool"
                   \/ wire = "gemini" /\ \E i \in DOMAIN said : Clashes(said[i])

=============================================================================
