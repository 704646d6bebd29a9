---------------------------- MODULE RequestModel ----------------------------
(***************************************************************************)
(* How a conversation becomes the request of each wire protocol:           *)
(* responses/model.rs, anthropic/model.rs, gemini/model.rs and             *)
(* chat_completions/model.rs.                                              *)
(*                                                                         *)
(* A conversation outlives the provider it began with: a host may point    *)
(* the agent at another provider or model between two requests, so every   *)
(* wire has to carry what the others produced.  The agent and the host are *)
(* modelled by how they grow the conversation; content is a number, unique *)
(* to the block it is the content of.                                      *)
(***************************************************************************)
EXTENDS Naturals, Sequences, FiniteSets, SequencesExt, FiniteSetsExt

CONSTANTS Routes,        \* records [wire, provider, model]
          Tools,         \* what a request offers: records [name, kind, deferred]
          MaxMessages,   \* messages of a conversation
          MaxBlocks,     \* blocks the assistant puts in one message
          None,          \* no item id, no format
          Failed         \* a request that cannot be built

VARIABLES history,   \* the messages of the conversation
          route,     \* where the next request goes
          cachedTo   \* the end of the last request, if it went to Anthropic

requestVars == <<history, route, cachedTo>>

(***************************************************************************)
(* The provider-neutral conversation (model.rs).                           *)
(***************************************************************************)
Block(kind, n) == [b |-> kind, n |-> n]
Hosted == {"search", "web", "picture"}

\* Opaque reasoning: what a thinking block carries besides its text.
Thinking(n, from, seal, itemId, redacted) ==
    [b |-> "thinking", n |-> n, from |-> from, seal |-> seal, id |-> itemId, redacted |-> redacted]

\* A tool call's id; the Responses wire joins the item's id to the call's.
ToolUse(n, item) == [b |-> "tool", n |-> n, id |-> [call |-> n, item |-> item], name |-> n]
ToolResult(n, use) == [b |-> "result", n |-> n, id |-> use.id]

Message(role, content) == [role |-> role, content |-> content]

\* ReasoningFormat: the wires that can replay sealed reasoning.
FormatOf(wire) == CASE wire = "anthropic" -> "AnthropicSigned" [] wire = "responses" -> "OpenAiEncrypted"
                    [] OTHER -> None

\* Opaque reasoning goes back only where it came from.
Replayable(block, role, to) ==
    /\ role = "assistant" /\ block.seal
    /\ block.from.provider = to.provider /\ block.from.model = to.model
    /\ FormatOf(block.from.wire) = FormatOf(to.wire)

RequestInit ==
    /\ history = <<>>
    /\ route \in Routes
    /\ cachedTo = 0

(***************************************************************************)
(* Responses: a fold over the blocks of a message.  `text' is the text     *)
(* buffer, `content' the parts of the message item under construction.     *)
(***************************************************************************)
NewItems == [items |-> <<>>, content |-> <<>>, text |-> <<>>, replayed |-> FALSE, ok |-> TRUE]

flush_text(s, role) ==
    IF s.text = <<>> THEN s
    ELSE [s EXCEPT !.text = <<>>, !.content = Append(@, [p |-> "text", of |-> s.text]),
                   !.ok = @ /\ role \in {"user", "assistant"}]

flush_message(s, role) ==
    LET t == flush_text(s, role)
    IN IF t.content = <<>> THEN t
       ELSE [t EXCEPT !.content = <<>>,
                      !.items = Append(@, [t |-> "message", role |-> role, parts |-> t.content])]

Push(s, item) == [s EXCEPT !.items = Append(@, item)]

\* One block of ResponsesInputItem::from_message.  The item id of a call is
\* sent only after reasoning replayed from the same message.
ResponsesBlock(s, block, role, to) ==
    CASE block.b = "text" -> [s EXCEPT !.text = Append(@, block.n)]
      [] block.b = "image" -> [flush_text(s, role) EXCEPT !.content = Append(@, [p |-> "image", of |-> <<block.n>>]),
                                                          !.ok = @ /\ role = "user"]
      [] block.b = "thinking" /\ ~(Replayable(block, role, to) /\ block.id) ->
            [s EXCEPT !.text = Append(@, block.n)]
      [] block.b = "thinking" -> [Push(flush_message(s, role), [t |-> "reasoning", of |-> <<block.n>>])
                                  EXCEPT !.replayed = TRUE]
      [] block.b = "tool" -> Push(flush_message(s, role),
                                  [t |-> "call", of |-> <<block.n>>, call |-> block.id.call,
                                   item |-> IF s.replayed THEN block.id.item ELSE None])
      [] block.b = "result" -> Push(flush_message(s, role),
                                    [t |-> "output", of |-> <<block.n>>, call |-> block.id.call])
      [] OTHER -> Push(flush_message(s, role), [t |-> block.b, of |-> <<block.n>>])

from_message(message, to) ==
    flush_message(FoldLeft(LAMBDA s, block : ResponsesBlock(s, block, message.role, to),
                           NewItems, message.content),
                  message.role)

\* ResponsesRequest::try_from_request_with_provider
ResponsesRequest(messages, to) ==
    LET each == [i \in DOMAIN messages |-> from_message(messages[i], to)]
    IN IF \E i \in DOMAIN each : ~each[i].ok THEN Failed
       ELSE FlattenSeq([i \in DOMAIN each |-> each[i].items])

(***************************************************************************)
(* Anthropic: a message for a message, a block for a block.                *)
(***************************************************************************)
message_has_image(message) == \E i \in DOMAIN message.content : message.content[i].b = "image"

\* AnthropicContentBlock::from_with_replay_target; a hosted call becomes a
\* tool call of the tool's name.
AnthropicBlock(block, role, to) ==
    CASE block.b = "thinking" /\ Replayable(block, role, to) ->
            [t |-> IF block.redacted THEN "redacted" ELSE "reasoning", of |-> <<block.n>>]
      [] block.b = "thinking" -> [t |-> "text", of |-> <<block.n>>]
      [] block.b = "tool" -> [t |-> "call", of |-> <<block.n>>, call |-> block.id, item |-> None]
      [] block.b = "result" -> [t |-> "output", of |-> <<block.n>>, call |-> block.id]
      [] OTHER -> [t |-> block.b, of |-> <<block.n>>]

AnthropicMessage(message, to) ==
    [role |-> message.role,
     content |-> [i \in DOMAIN message.content |-> AnthropicBlock(message.content[i], message.role, to)]]

CONVERSATION_CACHE_BREAKPOINTS == 2

\* The last messages of the user that have a block to mark.
mark_conversation_cache_breakpoints(messages) ==
    LET ends == {i \in DOMAIN messages : messages[i].role = "user" /\ messages[i].content # <<>>}
    IN {i \in ends : Cardinality({j \in ends : j > i}) < CONVERSATION_CACHE_BREAKPOINTS}

\* AnthropicRequest::try_from_with_provider
AnthropicRequest(messages, to) ==
    IF \E i \in DOMAIN messages : messages[i].role # "user" /\ message_has_image(messages[i]) THEN Failed
    ELSE FlattenSeq([i \in DOMAIN messages |-> AnthropicMessage(messages[i], to).content])

(***************************************************************************)
(* Gemini: results name the tool, which is looked up by the call's id.     *)
(***************************************************************************)
collect_tool_name_by_id(messages) ==
    UNION {{<<messages[i].content[j].id, messages[i].content[j].name>> :
            j \in {k \in DOMAIN messages[i].content : messages[i].content[k].b = "tool"}} : i \in DOMAIN messages}

\* GeminiPart::try_from_block
GeminiPart(block, role, names) ==
    CASE block.b = "thinking" -> [t |-> "text", of |-> <<block.n>>]
      [] block.b = "image" /\ (role # "user" \/ block.url) -> [t |-> Failed]
      [] block.b = "tool" -> [t |-> "call", of |-> <<block.n>>, call |-> block.name, item |-> None]
      [] block.b = "result" ->
            LET named == {pair \in names : pair[1] = block.id}
            IN IF named = {} THEN [t |-> Failed]
               ELSE [t |-> "output", of |-> <<block.n>>, call |-> (CHOOSE pair \in named : TRUE)[2]]
      [] OTHER -> [t |-> block.b, of |-> <<block.n>>]

\* GeminiGenerateContentRequest::try_from
GeminiRequest(messages) ==
    LET names == collect_tool_name_by_id(messages)
        parts == FlattenSeq([i \in DOMAIN messages |->
                    [j \in DOMAIN messages[i].content |->
                        GeminiPart(messages[i].content[j], messages[i].role, names)]])
    IN IF \E i \in DOMAIN parts : parts[i].t = Failed THEN Failed ELSE parts

(***************************************************************************)
(* Chat completions: one message in may be several out.  Results are       *)
(* messages of their own and go first.                                     *)
(***************************************************************************)
Of(content, kinds) == SelectSeq(content, LAMBDA block : block.b \in kinds)
Numbers(content) == [i \in DOMAIN content |-> content[i].n]

append_assistant_message(content) ==
    LET text == Of(content, {"text"})
        calls == Of(content, {"tool"})
    IN (IF text = <<>> THEN <<>> ELSE <<[t |-> "text", of |-> Numbers(text)]>>)
       \o [i \in DOMAIN calls |-> [t |-> "call", of |-> <<calls[i].n>>, call |-> calls[i].id, item |-> None]]

append_user_message(content) ==
    LET parts == Of(content, {"text", "image"})
    IN IF parts = <<>> THEN <<>> ELSE <<[t |-> "message", of |-> Numbers(parts)]>>

\* Mutant: the results go where they are.
append_message_InPlace(message) ==
    LET results == Of(message.content, {"result"})
    IN (IF message.role = "assistant" THEN append_assistant_message(message.content)
        ELSE append_user_message(message.content))
       \o [i \in DOMAIN results |-> [t |-> "output", of |-> <<results[i].n>>, call |-> results[i].id]]

append_message(message) ==
    LET results == Of(message.content, {"result"})
    IN [i \in DOMAIN results |-> [t |-> "output", of |-> <<results[i].n>>, call |-> results[i].id]]
       \o (IF message.role = "assistant" THEN append_assistant_message(message.content)
           ELSE append_user_message(message.content))

\* ChatCompletionsRequest::from_request
ChatRequest(messages) == FlattenSeq([i \in DOMAIN messages |-> append_message(messages[i])])

Converted(messages, to) ==
    CASE to.wire = "responses" -> ResponsesRequest(messages, to)
      [] to.wire = "anthropic" -> AnthropicRequest(messages, to)
      [] to.wire = "gemini" -> GeminiRequest(messages)
      [] to.wire = "chat" -> ChatRequest(messages)

(***************************************************************************)
(* The tools a request offers.                                             *)
(***************************************************************************)
Deferred(tools, forced) == {t \in tools : t.deferred /\ t.name # forced}

\* build_responses_tools
build_responses_tools(tools, forced, hosted) ==
    LET deferred == {t \in Deferred(tools, forced) : t.kind = "function"}
    IN IF deferred # {} /\ ~hosted THEN Failed
       ELSE [loaded |-> tools \ deferred, deferred |-> deferred, search |-> deferred # {}]

\* build_anthropic_tools
build_anthropic_tools(tools, forced, hosted) ==
    LET deferred == Deferred(tools, forced)
    IN IF (\E t \in tools : t.kind # "function") \/ (deferred # {} /\ ~hosted) THEN Failed
       ELSE [loaded |-> tools \ deferred, deferred |-> deferred, search |-> deferred # {}]

\* validate_gemini_tools
validate_gemini_tools(tools, forced) ==
    IF (\E t \in tools : t.kind # "function") \/ Deferred(tools, forced) # {} THEN Failed
    ELSE [loaded |-> tools, deferred |-> {}, search |-> FALSE]

\* ChatCompletionsRequest: other kinds of tools are left out.
ChatTools(tools) == [loaded |-> {t \in tools : t.kind = "function"}, deferred |-> {}, search |-> FALSE]

Offered(wire, tools, forced, hosted) ==
    CASE wire = "responses" -> build_responses_tools(tools, forced, hosted)
      [] wire = "anthropic" -> build_anthropic_tools(tools, forced, hosted)
      [] wire = "gemini" -> validate_gemini_tools(tools, forced)
      [] wire = "chat" -> ChatTools(tools)

(***************************************************************************)
(* The conversation grows as the agent and the host grow it.               *)
(***************************************************************************)
Next_n == IF history = <<>> THEN 1 ELSE Last(Last(history).content).n + 1

Grow(role, content) ==
    /\ Len(history) < MaxMessages
    /\ history' = Append(history, Message(role, content))

Calls(message) == Of(message.content, {"tool"})
AwaitsResults == history # <<>> /\ Last(history).role = "assistant" /\ Calls(Last(history)) # <<>>

\* A message of the user: text, or text and an image.
UserSays(image, url) ==
    /\ ~AwaitsResults /\ (url => image)
    /\ LET n == Next_n
       IN Grow("user", <<Block("text", n)>>
                       \o (IF image THEN <<[b |-> "image", n |-> n + 1, url |-> url]>> ELSE <<>>))
    /\ UNCHANGED <<route, cachedTo>>

\* The results of the calls of the last message, and what the agent adds to
\* them (a reminder, a steering message).
ToolsAnswer(remark) ==
    /\ AwaitsResults
    /\ LET n == Next_n
           calls == Calls(Last(history))
       IN Grow("user", (IF remark THEN <<Block("text", n)>> ELSE <<>>)
                       \o [i \in DOMAIN calls |-> ToolResult(n + i, calls[i])])
    /\ UNCHANGED <<route, cachedTo>>

\* What a model of the current route may put at position n of its message.
Generated(n) ==
    {Block("text", n)}
    \cup (IF FormatOf(route.wire) # None
          THEN {Thinking(n, route, TRUE, route.wire = "responses", redacted) :
                redacted \in {FALSE, route.wire = "anthropic"}} ELSE {})
    \cup {Thinking(n, route, FALSE, FALSE, FALSE)}
    \cup {ToolUse(n, IF route.wire = "responses" THEN n ELSE None)}
    \cup (IF route.wire = "responses" THEN {Block("web", n)} ELSE {})

\* A request is sent: the stop of an Anthropic request is where its newest
\* cache entry ends.  The reply is recorded with it.
Reply(k) ==
    /\ history # <<>> /\ Last(history).role = "user"
    /\ Converted(history, route) # Failed
    /\ LET n == Next_n
       IN \E content \in [1..k -> UNION {Generated(m) : m \in n..(n + k - 1)}] :
             /\ \A i \in 1..k : content[i].n = n + i - 1
             /\ Grow("assistant", content)
    /\ cachedTo' = IF route.wire = "anthropic" THEN Len(history) ELSE 0
    /\ UNCHANGED route

\* The host points the agent at another provider or model.
SwitchRoute(to) ==
    /\ to # route /\ history # <<>> /\ Last(history).role = "user"
    /\ route' = to
    /\ cachedTo' = 0
    /\ UNCHANGED history

RequestNext ==
    \/ \E image, url \in BOOLEAN : UserSays(image, url)
    \/ \E remark \in BOOLEAN : ToolsAnswer(remark)
    \/ \E k \in 1..MaxBlocks : Reply(k)
    \/ \E to \in Routes : SwitchRoute(to)

(***************************************************************************)
(* Properties.                                                             *)
(***************************************************************************)
Mentions(item) == IF item.t = "message" /\ "parts" \in DOMAIN item
                  THEN FlattenSeq([i \in DOMAIN item.parts |-> item.parts[i].of]) ELSE item.of
Told(items) == FlattenSeq([i \in DOMAIN items |-> Mentions(items[i])])
Everything == FlattenSeq([i \in DOMAIN history |-> Numbers(history[i].content)])

\* Whatever wire a conversation is sent on, nothing of it is lost, repeated or
\* put out of order.  Chat completions leaves the model's reasoning, hosted
\* calls and the images of the assistant out, and otherwise keeps the order of
\* the blocks of each kind.  (ResponsesInputItem::from_message buffers text
\* across blocks; append_message makes several passes over a message.)
ConversationIsKept ==
    LET request == Converted(history, route)
        kept(kinds) == FlattenSeq([i \in DOMAIN history |-> Numbers(Of(history[i].content, kinds))])
        of(kinds) == SelectSeq(Told(request), LAMBDA n : Contains(kept(kinds), n))
    IN request # Failed =>
        IF route.wire # "chat" THEN Told(request) = Everything
        ELSE /\ \A kinds \in {{"text", "image"}, {"tool"}, {"result"}} : of(kinds) = kept(kinds)
             /\ Len(Told(request)) = Len(kept({"text", "image", "tool", "result"}))

\* Every result in a request answers exactly one call of the same request, by
\* the identifier the wire goes by, and on chat completions the results of a
\* message of calls come before anything else does.
ResultsAnswerCalls ==
    LET request == Converted(history, route)
        calls(id) == {i \in DOMAIN request : request[i].t = "call" /\ request[i].call = id}
        outputs == {i \in DOMAIN request : request[i].t = "output"}
    IN request # Failed =>
        /\ \A i \in outputs : \E j \in calls(request[i].call) : calls(request[i].call) = {j} /\ j < i
        /\ \A i, j \in outputs : i # j => request[i].call # request[j].call
        /\ route.wire = "chat" =>
              \A i \in outputs : request[i - 1].t \in {"call", "output"}

\* Sealed reasoning is sent only to the provider and the model that sealed it,
\* and a Responses item id only with the reasoning it belongs to, however often
\* the conversation has moved.
SealedReasoningGoesHome ==
    LET request == Converted(history, route)
        made(n) == CHOOSE block \in UNION {ToSet(history[i].content) : i \in DOMAIN history} : block.n = n
    IN request # Failed =>
        \A i \in DOMAIN request :
            /\ request[i].t \in {"reasoning", "redacted"} => made(request[i].of[1]).from = route
            /\ request[i].t = "call" /\ request[i].item # None =>
                  \E j \in 1..(i - 1) : request[j].t = "reasoning"

\* The cache entry the last request wrote is read by the next one when the
\* conversation grew by one turn: its end is one of the marked positions, and
\* a request never has more than the four marks Anthropic accepts (one each for
\* the system prompt and the tools).
CacheIsRead ==
    LET marks == mark_conversation_cache_breakpoints(history)
    IN /\ Cardinality(marks) + 2 <= 4
       /\ route.wire = "anthropic" /\ cachedTo > 0 /\ Len(history) <= cachedTo + 2 => cachedTo \in marks

\* A tool the request must use is loaded with it, a deferred tool comes with
\* the search that can find it, and no function tool is dropped.
OfferedToolsAreReachable ==
    Len(history) = 1 =>
      \A tools \in SUBSET Tools, forced \in {t.name : t \in Tools} \cup {None}, hosted \in BOOLEAN :
        LET offer == Offered(route.wire, tools, forced, hosted)
        IN offer # Failed =>
            /\ \A t \in tools : t.kind = "function" =>
                  IF t.name = forced THEN t \in offer.loaded ELSE t \in offer.loaded \cup offer.deferred
            /\ offer.deferred # {} => offer.search

=============================================================================
