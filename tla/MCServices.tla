----------------------------- MODULE MCServices -----------------------------
(***************************************************************************)
(* What the crates reach outside the process, checked side by side: the    *)
(* clients of remote tools and agents, and the stores with their memories. *)
(* The parts share no state; each behaviour exercises the one `part' names *)
(* while the others stay as they began.                                    *)
(***************************************************************************)
EXTENDS McpTransports, McpTools, RemoteWire, A2aClient, SqliteStore, RowStores, TLC

VARIABLE part

MCServerNames == {<<"a">>, <<"a", "_">>, <<"a", "_", "b">>, <<"a", "_", "_", "b">>}
MCToolNames == {<<"a">>, <<"_", "a">>, <<"_", "_", "b">>}

MCContent(status, artifacts) == [status |-> status, artifacts |-> artifacts]
MCContents ==
    {MCContent(<<>>, <<>>), MCContent(<<"url">>, << <<"raw">> >>), MCContent(<<"text", "raw">>, <<>>),
     MCContent(<<"text">>, << <<"url", "data">>, <<"raw">> >>)}

MCRevisions == "a" :> 3 @@ "b" :> 0
MCFacts == "a" :> 0 @@ "b" :> 1
MCInside == {}

AConfig == [transport |-> "sse", url |-> [scheme |-> "https", host |-> "localhost", userinfo |-> FALSE],
            name |-> "", headers |-> "none", allow_plaintext_credentials |-> FALSE]

mcpVars == <<sseVars, httpVars, replyVars, stdioVars, managerVars, sseFrameVars, remoteVars>>
agentVars == <<a2aVars, callVars, toolVars>>
storeVars == <<sqliteVars, parityVars, memoryVars>>

Init ==
    /\ part \in {"sse", "http", "reply", "stdio", "manager", "frames", "requests",
                 "exchange", "calls", "tool", "rows", "mail", "parity", "memory"}
    /\ SseInit /\ HttpInit /\ ReplyInit /\ StdioInit /\ ManagerInit /\ SseFramesInit
    /\ RemoteInit /\ (part # "requests" => config = AConfig)
    /\ A2aInit /\ CallsInit /\ ToolInit /\ SqliteInit
    /\ ParityInit /\ (part # "parity" => storeTopic = "agents")
    /\ MemoryInit /\ (part # "memory" => backend = "hybrid")

McpNext ==
    \/ part = "sse" /\ SseNext
       /\ UNCHANGED <<httpVars, replyVars, stdioVars, managerVars, sseFrameVars, remoteVars>>
    \/ part = "http" /\ HttpNext
       /\ UNCHANGED <<sseVars, replyVars, stdioVars, managerVars, sseFrameVars, remoteVars>>
    \/ part = "reply" /\ ReplyNext
       /\ UNCHANGED <<sseVars, httpVars, stdioVars, managerVars, sseFrameVars, remoteVars>>
    \/ part = "stdio" /\ StdioNext
       /\ UNCHANGED <<sseVars, httpVars, replyVars, managerVars, sseFrameVars, remoteVars>>
    \/ part = "manager" /\ ManagerNext
       /\ UNCHANGED <<sseVars, httpVars, replyVars, stdioVars, sseFrameVars, remoteVars>>
    \/ part = "frames" /\ SseFramesNext
       /\ UNCHANGED <<sseVars, httpVars, replyVars, stdioVars, managerVars, remoteVars>>
    \/ part = "requests" /\ RemoteNext
       /\ UNCHANGED <<sseVars, httpVars, replyVars, stdioVars, managerVars, sseFrameVars>>

AgentNext ==
    \/ part = "exchange" /\ A2aNext
       /\ UNCHANGED <<callVars, toolVars>>
    \/ part = "calls" /\ CallsNext
       /\ UNCHANGED <<a2aVars, toolVars>>
    \/ part = "tool" /\ ToolNext
       /\ UNCHANGED <<a2aVars, callVars>>

StoreNext ==
    \/ part = "rows" /\ SqliteNext
       /\ UNCHANGED <<parityVars, memoryVars, mail>>
    \/ part = "mail" /\ SqliteNext
       /\ UNCHANGED <<parityVars, memoryVars, records>>
    \/ part = "parity" /\ ParityNext
       /\ UNCHANGED <<sqliteVars, memoryVars>>
    \/ part = "memory" /\ MemoryNext
       /\ UNCHANGED <<sqliteVars, parityVars>>

Next ==
    \/ McpNext /\ UNCHANGED <<agentVars, storeVars, part>>
    \/ AgentNext /\ UNCHANGED <<mcpVars, storeVars, part>>
    \/ StoreNext /\ UNCHANGED <<mcpVars, agentVars, part>>

Spec == Init /\ [][Next]_<<mcpVars, agentVars, storeVars, part>>

\* What a caller is told of a tool call or a message is true of it, whichever
\* transport carried it.  It is one of three things: an answer, a result or an
\* error, which is the other side's answer to that very request; a failure to
\* send, which means it was not acted on and will not be; or "indeterminate",
\* which is what everything else is called.  An answer that is an error or cannot
\* be read (JsonRpc, ParseError) does not say that nothing ran: OutcomeIsHonest
\* (mcp/sse/client.rs), ResendIsSafe and RepliesAreOurs
\* (mcp/streamable_http/client.rs), SendsAreCertain (a2a/client.rs).
FailuresAreHonest ==
    /\ part = "sse" => OutcomeIsHonest
    /\ part = "http" => ResendIsSafe
    /\ part = "reply" => RepliesAreOurs
    /\ part = "calls" => SendsAreCertain

\* Nobody waits for an answer that cannot come, no registration outlives its
\* caller but that of a dropped stdio call, and a client keeps one conversation:
\* one event stream, none after shutdown, the session and the tools that were
\* agreed, names that lead back to their tools, credentials that stay with the
\* server they were given for: WaitersAreLive and StreamsAreOwned
\* (mcp/sse/client.rs), StdioIsAnswered (mcp/client.rs), ConversationIsAsAgreed
\* (streamable_http), ToolNamesLeadBack (mcp/manager.rs), CredentialsStayPrivate.
ConversationsAreKept ==
    /\ part = "sse" => WaitersAreLive /\ StreamsAreOwned
    /\ part = "stdio" => StdioIsAnswered
    /\ part = "reply" => ConversationIsAsAgreed
    /\ part = "manager" => ToolNamesLeadBack
    /\ part = "requests" => CredentialsStayPrivate

\* However a stream is cut into chunks, its readers read the same events, all of
\* them and in order, up to its end or the place that is refused; the MCP parser
\* gives up the whole chunk in which that place is: FramesAreEvents and
\* ProviderFramesAreEvents (the splitters), StreamsAreWhole (a2a/client/sse.rs).
EventsAreRead ==
    /\ part = "frames" => FramesAreEvents /\ ProviderFramesAreEvents
    /\ part = "calls" => StreamsAreWhole

\* One piece of work is one task of the remote agent, however often the call is
\* repeated, resumed or dropped, and its task is cancelled, counted and named in
\* replies as the caller relies on: OneTaskPerMessage, HandedBackIsLeftAlone and
\* HeldIsCounted (a2a/exchange.rs), HandedOverOnce and RepliesLeadOn (a2a/tool.rs).
WorkIsHandedOverOnce ==
    /\ part = "exchange" => OneTaskPerMessage /\ HandedBackIsLeftAlone /\ HeldIsCounted
    /\ part = "tool" => HandedOverOnce /\ RepliesLeadOn

\* What an agent remembers is what was stored for it, however ingests, pins and
\* forgetting interleave: see ForgettingIsOnesOwn, OnlyOvertakenIsSkipped and
\* RecallIsBounded.
MemoryIsKept == part = "memory" => ForgettingIsOnesOwn /\ OnlyOvertakenIsSkipped /\ RecallIsBounded
=============================================================================
