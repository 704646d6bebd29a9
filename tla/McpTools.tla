------------------------------ MODULE McpTools ------------------------------
(***************************************************************************)
(* What the MCP clients make of their servers: the manager that gathers    *)
(* the servers' tools, and the reading of one reply.                       *)
(***************************************************************************)
EXTENDS Naturals, Sequences, FiniteSets

(***************************************************************************)
(* The manager of MCP servers (mcp/manager.rs) and the names under which   *)
(* their tools are registered (mcp/bridge.rs).  A name is a sequence over  *)
(* a small alphabet in which "_" is what the separator is made of.         *)
(***************************************************************************)

CONSTANTS ServerNames,   \* configured server names
          ToolNames      \* names servers give their tools

VARIABLES servers,    \* connected servers: the tools of each
          errors,     \* names whose last connection failed
          bridged     \* <<server, tool>> pairs handed to the runtime, which keeps them

managerVars == <<servers, errors, bridged>>

Separator == <<"_", "_">>

\* The position of the first separator, 0 when there is none.
FirstSeparator(name) ==
    LET at == {i \in 1..Len(name) - 1 : SubSeq(name, i, i + 1) = Separator}
    IN IF at = {} THEN 0 ELSE CHOOSE i \in at : \A j \in at : i <= j

\* The prefix "mcp__" is the same on every name and is left out.
mcp_tool_name(server, tool) == server \o Separator \o tool

parse_mcp_tool_name(name) ==
    LET i == FirstSeparator(name)
    IN <<SubSeq(name, 1, i - 1), SubSeq(name, i + 2, Len(name))>>

validate_mcp_server_name(server) ==
    /\ server # <<>>
    /\ FirstSeparator(server) = 0
    /\ server[Len(server)] # "_"

ManagerInit == servers = [s \in {} |-> {}] /\ errors = {} /\ bridged = {}

Without(s) == [n \in DOMAIN servers \ {s} |-> servers[n]]

\* connect, connect_sse, connect_streamable_http: an old connection of that
\* name is ended first, even if the new one then fails.
connect(s, tools) ==
    /\ validate_mcp_server_name(s)
    /\ \/ /\ servers' = [n \in DOMAIN servers \union {s} |-> IF n = s THEN tools ELSE servers[n]]
          /\ errors' = errors \ {s}
          /\ bridged' = bridged \union {<<s, t>> : t \in tools}
       \/ servers' = Without(s) /\ errors' = errors \union {s} /\ UNCHANGED bridged

disconnect(s) == s \in DOMAIN servers /\ servers' = Without(s) /\ UNCHANGED <<errors, bridged>>

shutdown_all == servers # <<>> /\ servers' = [s \in {} |-> {}] /\ UNCHANGED <<errors, bridged>>

ManagerNext ==
    \/ \E s \in ServerNames, tools \in SUBSET ToolNames : connect(s, tools)
    \/ \E s \in ServerNames : disconnect(s)
    \/ shutdown_all

\* list_servers: connected servers, and failed ones that are not connected.
list_servers ==
    {[name |-> s, status |-> "Connected", tool_count |-> Cardinality(servers[s])] : s \in DOMAIN servers}
        \union {[name |-> s, status |-> "Error", tool_count |-> 0] : s \in errors \ DOMAIN servers}

\* all_tool_names
all_tool_names == UNION {{mcp_tool_name(s, t) : t \in servers[s]} : s \in DOMAIN servers}

\* Whatever the servers call their tools, no two bridged tools get one name,
\* and a name leads back to the server and the tool it was made from: a rule or
\* a call that names a tool reaches the server it was meant for.  A server is
\* listed once.
ToolNamesLeadBack ==
    /\ \A p \in bridged : parse_mcp_tool_name(mcp_tool_name(p[1], p[2])) = p
    /\ Cardinality(all_tool_names) = Cardinality(UNION {{<<s, t>> : t \in servers[s]} : s \in DOMAIN servers})
    /\ \A a, b \in list_servers : a.name = b.name => a = b

----------------------------------------------------------------------------
(***************************************************************************)
(* One conversation of the MCP Streamable HTTP client                      *)
(* (mcp/streamable_http/client.rs) as far as the replies go: the           *)
(* handshake, the paginated list of tools, calls, and how a reply is found *)
(* in a body or on a stream that carries other messages, stops, or never   *)
(* ends.  Sessions the server forgets are McpTransports'.                 *)
(***************************************************************************)

CONSTANTS MaxResponseBytes, MaxTools, MaxToolPages,   \* limits
          MaxPerPage, MaxRpcIds, NoHeader

ASSUME ReplyLimitsAssumption == MaxTools \in Nat /\ MaxToolPages \in Nat \ {0} /\ MaxResponseBytes \in Nat

VARIABLES client,    \* stage, session id and protocol version
          call_,       \* the exchange in progress
          listing,   \* discover_tools: tools and pages so far
          listed,    \* history: what the server has listed, and whether it had more
          far,       \* the server: calls it ran, answers it gave, the session initialize assigned
          outcomes   \* what each call's caller was told

replyVars == <<client, call_, listing, listed, far, outcomes>>

RpcIds == 1..MaxRpcIds
Idle == [pc |-> "idle", method |-> "none", id |-> 0, framing |-> "none", seen |-> 0]
Limits == {"TooManyTools", "TooManyToolPages"}

ReplyTypeOK ==
    /\ client.stage \in {"initialize", "notify", "list", "ready", "failing", "closed", "failed"} \union Limits
    /\ call_.pc \in {"idle", "posted", "reading"} /\ call_.framing \in {"none", "Json", "EventStream"}
    /\ listing \in [tools : 0..(MaxTools + MaxPerPage), pages : 0..MaxToolPages]
    /\ far.ran \subseteq RpcIds
    /\ outcomes \in [RpcIds -> {"none", "Result", "Misfit", "JsonRpc", "Indeterminate", "Definite"}]

ReplyInit ==
    /\ client = [stage |-> "initialize", id |-> NoHeader, version |-> NoHeader, next |-> 1]
    /\ call_ = Idle
    /\ listing = [tools |-> 0, pages |-> 0] /\ listed = [tools |-> 0, more |-> FALSE]
    /\ far = [ran |-> {}, answered |-> {}, session |-> NoHeader]
    /\ outcomes = [i \in RpcIds |-> "none"]

----------------------------------------------------------------------------
(* How an exchange fails. *)

reply_failure(method, error) ==
    IF method # "tools/call" \/ error \in {"JsonRpc", "Indeterminate"} THEN error ELSE "Indeterminate"

classify_reply_failure(method, error) ==
    IF method # "tools/call" \/ error = "Refused" THEN "Definite" ELSE "Indeterminate"

request_timeout(method) == IF method = "tools/call" THEN "Indeterminate" ELSE "Definite"

\* What becomes of the client when the exchange of a method ends in an error.
Fail(error) ==
    /\ call_' = Idle
    /\ outcomes' = IF call_.method = "tools/call" THEN [outcomes EXCEPT ![call_.id] = error] ELSE outcomes
    /\ client' = IF call_.method = "tools/call" THEN client ELSE [client EXCEPT !.stage = "failing"]

----------------------------------------------------------------------------
(* exchange *)

MethodAt(stage) == CASE stage = "initialize" -> "initialize" [] stage = "list" -> "tools/list" [] stage = "ready" -> "tools/call"

reply_attempt ==
    /\ client.stage \in {"initialize", "list", "ready"} /\ call_.pc = "idle" /\ client.next \in RpcIds
    /\ call_' = [Idle EXCEPT !.pc = "posted", !.method = MethodAt(client.stage), !.id = client.next]
    /\ client' = [client EXCEPT !.next = @ + 1]
    /\ UNCHANGED <<listing, listed, far, outcomes>>

Runs_(ran) == far' = IF ran /\ call_.method = "tools/call" THEN [far EXCEPT !.ran = @ \union {call_.id}] ELSE far

\* The POST has no 2xx answer: refused before it is dispatched, or anything
\* else, which does not say whether it ran.
PostFails(refused, ran) ==
    /\ call_.pc = "posted" /\ (refused => ~ran)
    /\ Runs_(ran) /\ Fail(classify_reply_failure(call_.method, IF refused THEN "Refused" ELSE "Lost"))
    /\ UNCHANGED <<listing, listed>>

\* The session is adopted from the answer to initialize only, and only if it
\* is short and visible ASCII.
adopt_session(offer) ==
    IF call_.method # "initialize" THEN client.id ELSE IF offer = "bad" THEN NoHeader ELSE offer

\* A 2xx: a framing the client reads, or a 202 or another content type.
reply_framing(framing, ran, offer) ==
    /\ call_.pc = "posted"
    /\ LET run == IF ran /\ call_.method = "tools/call" THEN {call_.id} ELSE {}
           valid == IF offer = "bad" THEN NoHeader ELSE offer
       IN  far' = [far EXCEPT !.ran = @ \union run, !.session = IF call_.method = "initialize" THEN valid ELSE @]
    /\ IF framing \in {"Json", "EventStream"}
       THEN /\ call_' = [call_ EXCEPT !.pc = "reading", !.framing = framing]
            /\ client' = [client EXCEPT !.id = adopt_session(offer)] /\ UNCHANGED outcomes
       ELSE LET error == reply_failure(call_.method, "Definite")
            IN  /\ call_' = Idle
                /\ outcomes' = IF call_.method = "tools/call" THEN [outcomes EXCEPT ![call_.id] = error] ELSE outcomes
                /\ client' = [client EXCEPT !.id = adopt_session(offer),
                                            !.stage = IF call_.method = "tools/call" THEN @ ELSE "failing"]
    /\ UNCHANGED <<listing, listed>>

----------------------------------------------------------------------------
(* Reading the reply. *)

\* The body breaks or stays silent, or the stream ends without the reply.
ReplyLost ==
    /\ call_.pc = "reading" /\ Fail(reply_failure(call_.method, "Definite"))
    /\ UNCHANGED <<listing, listed, far>>

AttemptTimeout ==
    /\ call_.pc \in {"posted", "reading"} /\ Fail(request_timeout(call_.method))
    /\ UNCHANGED <<listing, listed, far>>

TooLarge == call_.seen + 1 > MaxResponseBytes

\* A message of the stream that is not the reply: a heartbeat, a request of
\* the server's own, an answer to another id, or something unreadable.
SkipMessage ==
    /\ call_.pc = "reading" /\ call_.framing = "EventStream"
    /\ IF TooLarge THEN Fail(reply_failure(call_.method, "Definite"))
       ELSE call_' = [call_ EXCEPT !.seen = @ + 1] /\ UNCHANGED <<client, outcomes>>
    /\ UNCHANGED <<listing, listed, far>>

\* The same in a body of its own: it cannot be the reply.
outcome_Mismatched ==
    /\ call_.pc = "reading" /\ call_.framing = "Json" /\ Fail(reply_failure(call_.method, "Definite"))
    /\ UNCHANGED <<listing, listed, far>>

\* The server's error is the answer, its wording dropped.
ErrorReply ==
    /\ call_.pc = "reading"
    /\ Fail(IF TooLarge THEN reply_failure(call_.method, "Definite") ELSE reply_failure(call_.method, "JsonRpc"))
    /\ far' = [far EXCEPT !.answered = @ \union {<<call_.id, "JsonRpc">>}]
    /\ UNCHANGED <<listing, listed>>

\* A result of a call; one that does not have the shape of MCP's is an error.
read_streamed_reply ==
    /\ call_.pc = "reading" /\ call_.method = "tools/call" /\ call_.id \in far.ran
    /\ far' = [far EXCEPT !.answered = @ \union {<<call_.id, "Result">>}]
    /\ IF TooLarge THEN Fail(reply_failure(call_.method, "Definite"))
       ELSE \E told \in {"Result", "Misfit"} : call_' = Idle /\ outcomes' = [outcomes EXCEPT ![call_.id] = told] /\ UNCHANGED client
    /\ UNCHANGED <<listing, listed>>

----------------------------------------------------------------------------
(* The handshake and the list. *)

\* initialize's result names a revision this client speaks, or not.
adopt_protocol_version(supported) ==
    /\ call_.pc = "reading" /\ call_.method = "initialize" /\ ~TooLarge
    /\ call_' = Idle
    /\ client' = IF supported THEN [client EXCEPT !.version = "negotiated", !.stage = "notify"]
                 ELSE [client EXCEPT !.stage = "failing"]
    /\ UNCHANGED <<listing, listed, far, outcomes>>

notify_peer(ok) ==
    /\ client.stage = "notify" /\ client' = [client EXCEPT !.stage = IF ok THEN "list" ELSE "failing"]
    /\ UNCHANGED <<call_, listing, listed, far, outcomes>>

\* Pages are counted against the limit only when another is asked for.
discover_tools(tools, more) ==
    LET total == listing.tools + tools
        pages == listing.pages + 1
    IN  IF total > MaxTools THEN "TooManyTools"
        ELSE IF ~more THEN "ready"
        ELSE IF pages >= MaxToolPages THEN "TooManyToolPages" ELSE "list"

ListPage(tools, more) ==
    /\ call_.pc = "reading" /\ call_.method = "tools/list" /\ ~TooLarge
    /\ call_' = Idle
    /\ listing' = [tools |-> listing.tools + tools, pages |-> listing.pages + 1]
    /\ listed' = [tools |-> listed.tools + tools, more |-> more]
    /\ client' = [client EXCEPT !.stage = discover_tools(tools, more)]
    /\ UNCHANGED <<far, outcomes>>

\* connect ends the session when a later step fails, and the host when it is
\* done; whatever the server says to the DELETE, the id is forgotten.
reply_shutdown ==
    /\ call_.pc = "idle" /\ client.stage \in {"failing", "ready"} \union Limits /\ client.id # NoHeader
    /\ client' = [client EXCEPT !.id = NoHeader,
                                !.stage = CASE @ = "ready" -> "closed" [] @ = "failing" -> "failed" [] OTHER -> @]
    /\ UNCHANGED <<call_, listing, listed, far, outcomes>>

ReplyNext ==
    \/ reply_attempt \/ ReplyLost \/ AttemptTimeout \/ SkipMessage \/ outcome_Mismatched \/ ErrorReply
    \/ read_streamed_reply \/ reply_shutdown
    \/ \E refused, ran \in BOOLEAN : PostFails(refused, ran)
    \/ \E f \in {"Json", "EventStream", "Accepted", "Other"}, ran \in BOOLEAN, offer \in {NoHeader, "s1", "s2", "bad"} :
          reply_framing(f, ran, offer)
    \/ \E b \in BOOLEAN : adopt_protocol_version(b) \/ notify_peer(b)
    \/ \E n \in 0..MaxPerPage, more \in BOOLEAN : ListPage(n, more)

ReplySpec == ReplyInit /\ [][ReplyNext]_replyVars

----------------------------------------------------------------------------

(* What a caller of a tool is told is true of that call: a result, one     *)
(* that does not have the shape of MCP's (Misfit, a ParseError) and an     *)
(* error of the server's are the ones given for its id, whatever else came *)
(* on the stream before; a result of either shape is that of a call that   *)
(* ran; and a failure that is neither an answer nor indeterminate is that  *)
(* of a call that did not run ("a tools/call may already have run: [...]   *)
(* all indistinguishable from the tool ran and the answer was lost").      *)
RepliesAreOurs ==
    \A i \in RpcIds :
        /\ outcomes[i] \in {"Result", "JsonRpc"} => <<i, outcomes[i]>> \in far.answered
        /\ outcomes[i] = "Misfit" => <<i, "Result">> \in far.answered
        /\ outcomes[i] \in {"Result", "Misfit"} => i \in far.ran
        /\ outcomes[i] = "Definite" => i \notin far.ran

(* The conversation is the one that was agreed: the tools a client serves  *)
(* are all the server listed, a list is refused only for being over a      *)
(* limit (one of exactly max_tools tools or max_tool_pages pages is        *)
(* accepted), and requests carry the session initialize assigned, however  *)
(* later answers try to move it ("Reading it from a later response would   *)
(* let a server rotate the session mid-conversation").                     *)
ConversationIsAsAgreed ==
    /\ client.stage \in {"ready", "closed"} => listing.tools = listed.tools /\ ~listed.more /\ listing.tools <= MaxTools
    /\ client.stage = "TooManyTools" => listed.tools > MaxTools
    /\ client.stage = "TooManyToolPages" => listed.more /\ listing.pages = MaxToolPages
    /\ client.stage \in {"notify", "list", "ready"} => client.id = far.session
=============================================================================
