----------------------------- MODULE RemoteWire -----------------------------
(***************************************************************************)
(* What goes over the wire to remote services: the framing of server-sent  *)
(* events, and the requests of the remote clients.                         *)
(***************************************************************************)
EXTENDS Naturals, Sequences, FiniteSets, SequencesExt

(***************************************************************************)
(* The event-stream framing, which the repository reads in three ways: the *)
(* parser of the MCP transports (mcp/sse/wire.rs), the parser of the A2A   *)
(* client (a2a/client/sse.rs), and the frame splitters of the model        *)
(* providers (anthropic, gemini, responses and chat_completions sse.rs).   *)
(*                                                                         *)
(* A stream is a sequence of bytes; the content of a line is one token,    *)
(* named for the field it sets.  BOM bytes may only open a stream.         *)
(***************************************************************************)

CONSTANTS MaxBytes,      \* tokens of a stream
          MaxEvent       \* the limit on what a parser buffers for one event

VARIABLES sent,       \* what the peer sent
          fed,        \* how much of it has been read, in chunks
          mcp, a2a,   \* the two incremental parsers
          frames,     \* the providers' buffers and the frames they took
          closed      \* the body has ended

sseFrameVars == <<sent, fed, mcp, a2a, frames, closed>>

BOM == <<"B1", "B2", "B3">>
Content == {"data:1", "data:", "event:x", ":c"}
Field(line) == IF line = "data:1" \/ line = "data:" THEN "data"
               ELSE IF line = "event:x" THEN "event" ELSE "none"
Value(line) == IF line = "data:1" THEN "1" ELSE ""

\* What a completed line says: nothing for a comment or an unknown field.
\* A line is empty, one content token, or bytes of a BOM before either.
Said(line) == IF Len(line) = 1 THEN Field(line[1]) ELSE "none"

NoEvent == "none"

(***************************************************************************)
(* mcp/sse/wire.rs                                                         *)
(***************************************************************************)
McpNew == [line |-> <<>>, data |-> <<>>, event |-> NoEvent, pending_cr |-> FALSE,
           at_stream_start |-> TRUE, out |-> <<>>, failed |-> FALSE, taken |-> 0]

buffered(p) == Len(p.line) + Len(p.data) + (IF p.event = NoEvent THEN 0 ELSE 1)

check_bounds(p) == [p EXCEPT !.failed = buffered(p) > MaxEvent]

take_event(p) ==
    LET kept == IF p.data = <<>> THEN p.out
                ELSE Append(p.out, [event |-> IF p.event = NoEvent THEN "message" ELSE p.event, data |-> p.data])
    IN [p EXCEPT !.event = NoEvent, !.data = <<>>, !.out = kept]

\* Part of a BOM is not UTF-8.
McpEndLine(p) ==
    LET bom == p.at_stream_start /\ IsPrefix(BOM, p.line)
        text == IF bom THEN SubSeq(p.line, 4, Len(p.line)) ELSE p.line
        q == [p EXCEPT !.line = <<>>, !.at_stream_start = FALSE]
    IN IF ~bom /\ Len(p.line) > 0 /\ p.line[1] \in {"B1", "B2", "B3"} THEN [q EXCEPT !.failed = TRUE]
       ELSE IF text = <<>> THEN take_event(q)
       ELSE IF Said(text) = "event" THEN [q EXCEPT !.event = "x"]
       ELSE IF Said(text) = "data" THEN check_bounds([q EXCEPT !.data = Append(@, Value(text[1]))])
       ELSE q

McpByte_NoPendingCr(p, b) ==
    IF p.failed THEN p
    ELSE IF b = "LF" \/ b = "CR" THEN McpEndLine(p)
    ELSE check_bounds([p EXCEPT !.line = Append(@, b)])

McpByte(p, b) ==
    IF p.failed THEN p
    ELSE IF p.pending_cr /\ b = "LF" THEN [p EXCEPT !.pending_cr = FALSE]
    ELSE IF b = "LF" \/ b = "CR" THEN McpEndLine([p EXCEPT !.pending_cr = b = "CR"])
    ELSE check_bounds([p EXCEPT !.pending_cr = FALSE, !.line = Append(@, b)])

\* The events a chunk completed are returned with it or, when it fails, not at
\* all; read_stream and read_streamed_reply give the stream up at that chunk.
feed(p, chunk) ==
    LET q == FoldLeft(McpByte, p, chunk)
    IN IF q.failed THEN [q EXCEPT !.out = p.out] ELSE [q EXCEPT !.taken = @ + Len(chunk)]

(***************************************************************************)
(* a2a/client/sse.rs                                                       *)
(***************************************************************************)
A2aNew == [bom |-> 0, line |-> <<>>, data |-> <<>>, has_data |-> FALSE, after_cr |-> FALSE,
           out |-> <<>>, failed |-> FALSE, taken |-> 0]
BomDone == 3      \* bom = None

A2aEndLine(p) ==
    LET q == [p EXCEPT !.line = <<>>]
    IN IF p.line = <<>>
       THEN IF p.has_data THEN [q EXCEPT !.has_data = FALSE, !.data = <<>>, !.out = Append(@, p.data)] ELSE q
       ELSE IF Said(p.line) = "data"
       THEN [q EXCEPT !.data = Append(@, Value(p.line[1])), !.has_data = TRUE]
       ELSE q

take(p, b) ==
    LET q == [p EXCEPT !.after_cr = b = "CR"]
    IN IF p.failed THEN p
       ELSE IF b = "LF" /\ p.after_cr THEN q
       ELSE IF b = "LF" \/ b = "CR" THEN A2aEndLine(q)
       ELSE LET r == [q EXCEPT !.line = Append(@, b)]
            IN [r EXCEPT !.failed = Len(r.line) + Len(r.data) > MaxEvent]

Counted(p) == IF p.failed THEN p ELSE [p EXCEPT !.taken = @ + 1]

\* Held-back bytes that were no byte order mark begin the first line.
A2aByte(p, b) ==
    IF p.failed THEN p
    ELSE IF p.bom < BomDone
    THEN IF b = BOM[p.bom + 1] THEN [p EXCEPT !.bom = @ + 1]
         ELSE take(FoldLeft(take, [p EXCEPT !.bom = BomDone], SubSeq(BOM, 1, p.bom)), b)
    ELSE take(p, b)

\* The events a chunk completed before its failing byte are handed out first.
push(p, chunk) == FoldLeft(LAMBDA q, b : Counted(A2aByte(q, b)), p, chunk)

\* An event cut off at the end of the stream is kept, to fail to decode.
finish(p) ==
    LET q == IF p.bom < BomDone THEN [p EXCEPT !.line = @ \o SubSeq(BOM, 1, p.bom), !.bom = BomDone] ELSE p
        r == IF q.line = <<>> THEN q ELSE A2aEndLine(q)
    IN IF r.has_data THEN A2aEndLine(r) ELSE r

\* Reader::next skips an event whose data is blank.
Handed(p) == SelectSeq(p.out, LAMBDA data : \E i \in 1..Len(data) : data[i] # "")

(***************************************************************************)
(* The providers' find_frame_boundary and parse_frame.                     *)
(***************************************************************************)
Boundary(delimiter, buffer) ==
    LET at == {i \in 1..Len(buffer) : IsPrefix(delimiter, SubSeq(buffer, i, Len(buffer)))}
    IN IF at = {} THEN 0 ELSE CHOOSE i \in at : \A j \in at : i <= j

LfLf == <<"LF", "LF">>
CrLfCrLf == <<"CR", "LF", "CR", "LF">>

\* anthropic, gemini, responses: a blank line of LFs anywhere in the buffer is
\* preferred to one of CRLFs before it.
find_frame_boundary(buffer) ==
    LET lf == Boundary(LfLf, buffer)
        crlf == Boundary(CrLfCrLf, buffer)
    IN IF lf > 0 THEN <<lf, 2>> ELSE <<crlf, 4>>

\* chat_completions: the first of the two.
chat_find_frame_boundary(buffer) ==
    LET lf == Boundary(LfLf, buffer)
        crlf == Boundary(CrLfCrLf, buffer)
    IN IF crlf > 0 /\ (lf = 0 \/ crlf <= lf) THEN <<crlf, 4>> ELSE <<lf, 2>>

\* lines(), without a trailing CR: the data lines of a frame.
parse_frame(frame) ==
    LET starts == {i \in 1..Len(frame) : i = 1 \/ frame[i - 1] = "LF"}
        data == {i \in starts : Field(frame[i]) = "data" /\ (i = Len(frame) \/ frame[i + 1] \in {"CR", "LF"})}
        order == SetToSortSeq(data, <)
    IN [k \in 1..Len(order) |-> Value(frame[order[k]])]

WithFrame(f, frame) ==
    LET data == parse_frame(frame) IN IF data = <<>> THEN f.out ELSE Append(f.out, data)

\* forward_events: frames are taken from the buffer as long as it holds one.
TakeFrame(f, which) ==
    LET b == IF which = "chat" THEN chat_find_frame_boundary(f.buffer) ELSE find_frame_boundary(f.buffer)
    IN IF b[1] = 0 THEN f
       ELSE [buffer |-> SubSeq(f.buffer, b[1] + b[2], Len(f.buffer)),
             out |-> WithFrame(f, SubSeq(f.buffer, 1, b[1] - 1))]

TakeFrames(f, chunk, which) ==
    FoldLeft(LAMBDA g, i : TakeFrame(g, which), [f EXCEPT !.buffer = @ \o chunk],
             [i \in 1..(Len(f.buffer) + Len(chunk)) |-> i])

FlushBuffer(f) == [buffer |-> <<>>, out |-> WithFrame(f, f.buffer)]

-----------------------------------------------------------------------------

Kinds == {"chat", "other"}

SseFramesInit ==
    /\ sent = <<>> /\ fed = 0 /\ closed = FALSE
    /\ mcp = McpNew /\ a2a = A2aNew
    /\ frames = [k \in Kinds |-> [buffer |-> <<>>, out |-> <<>>]]

\* A line's content begins a line, or follows bytes of a BOM.
AtLineStart == IF sent = <<>> THEN TRUE ELSE Last(sent) \in {"LF", "CR", "B1", "B2", "B3"}

\* The peer sends; the network decides how much is read at once.
Send(b) ==
    /\ ~closed /\ Len(sent) < MaxBytes
    /\ \/ b \in {"LF", "CR"}
       \/ b \in Content /\ AtLineStart
       \/ Len(sent) < 3 /\ sent = SubSeq(BOM, 1, Len(sent)) /\ b = BOM[Len(sent) + 1]
    /\ sent' = Append(sent, b)
    /\ UNCHANGED <<fed, mcp, a2a, frames, closed>>

ReadChunk ==
    /\ ~closed /\ fed < Len(sent)
    /\ LET chunk == SubSeq(sent, fed + 1, Len(sent))
       IN /\ mcp' = feed(mcp, chunk)
          /\ a2a' = push(a2a, chunk)
          /\ frames' = [k \in Kinds |-> TakeFrames(frames[k], chunk, k)]
    /\ fed' = Len(sent)
    /\ UNCHANGED <<sent, closed>>

EndOfBody ==
    /\ ~closed /\ fed = Len(sent)
    /\ closed' = TRUE
    /\ a2a' = IF a2a.failed THEN a2a ELSE finish(a2a)
    /\ frames' = [k \in Kinds |-> FlushBuffer(frames[k])]
    /\ UNCHANGED <<sent, fed, mcp>>

SseFramesNext ==
    \/ \E b \in Content \union {"LF", "CR", "B1", "B2", "B3"} : Send(b)
    \/ ReadChunk \/ EndOfBody

-----------------------------------------------------------------------------
(* The framing itself, read off the whole stream: a line ends at CRLF, LF  *)
(* or CR; a blank line ends an event; an event is its data lines.          *)

Body(s) == IF IsPrefix(BOM, s) THEN SubSeq(s, 4, Len(s)) ELSE s

LineEnds(s) == {i \in 1..Len(s) : s[i] = "CR" \/ (s[i] = "LF" /\ (i = 1 \/ s[i - 1] # "CR"))}
Blank(s, i) == i \in LineEnds(s) /\ (i = 1 \/ s[i - 1] = "LF" \/ s[i - 1] = "CR")
EventLines(s, from, to, field) ==
    {i \in from..to : Field(s[i]) = field /\ (i = 1 \/ s[i - 1] \in {"LF", "CR"})
                      /\ i < Len(s) /\ s[i + 1] \in {"LF", "CR"}}

InOrder(s, at) == SelectSeq([i \in 1..Len(s) |-> i], LAMBDA i : i \in at)
EventEnds(s) == InOrder(s, {i \in 1..Len(s) : Blank(s, i)})

EventAt(s, k) ==
    LET from == IF k = 1 THEN 1 ELSE EventEnds(s)[k - 1]
        data == InOrder(s, EventLines(s, from, EventEnds(s)[k], "data"))
    IN [event |-> IF EventLines(s, from, EventEnds(s)[k], "event") = {} THEN "message" ELSE "x",
        data |-> [n \in 1..Len(data) |-> Value(s[data[n]])]]

Events(s) ==
    SelectSeq([k \in 1..Len(EventEnds(s)) |-> EventAt(s, k)], LAMBDA e : e.data # <<>>)

DataOf(events) == [k \in 1..Len(events) |-> events[k].data]

Read == SubSeq(sent, 1, fed)
\* The events of what a parser took; a body that has ended ends its last event.
Taken(p, end) == Events(Body(SubSeq(sent, 1, p.taken) \o end))

\* Whichever of the three line endings it mixes, a stream is the same events to
\* both parsers however it is cut into chunks, until one refuses it for its size
\* or its encoding.  The A2A parser has by then handed out every event that was
\* complete before the byte it refused ("Events the chunk completed before an
\* error are the agent's", a2a/client/sse.rs); the MCP parser (mcp/sse/wire.rs)
\* every event of the chunks before the refused one and none of that chunk: there,
\* and only there, the cut shows.
FramesAreEvents ==
    /\ mcp.out = Taken(mcp, <<>>)
    /\ ~mcp.failed => mcp.taken = fed /\ buffered(mcp) <= MaxEvent
    /\ a2a.out = DataOf(Taken(a2a, IF closed /\ ~a2a.failed THEN LfLf ELSE <<>>))
    /\ ~a2a.failed => a2a.taken = fed

Plain(s) == \A i \in 1..Len(s) : s[i] \notin {"CR", "B1", "B2", "B3"}
Windows(s) == /\ \A i \in 1..Len(s) : s[i] \notin {"B1", "B2", "B3"}
              /\ \A i \in 1..Len(s) : s[i] = "LF" => i > 1 /\ s[i - 1] = "CR"
              /\ \A i \in 1..Len(s) : s[i] = "CR" => i = Len(s) \/ s[i + 1] = "LF"

\* The providers' splitters agree with the framing for a stream whose lines all
\* end in LF, or all in CRLF, however it is cut into chunks.
ProviderFramesAreEvents ==
    ~closed /\ fed > 0 /\ (Plain(Read) \/ Windows(Read)) =>
        \A k \in Kinds : LET all == DataOf(Events(Read))
                         IN \/ frames[k].out = all
                            \* the LF of a CRLF is still to come
                            \/ Windows(Read) /\ Last(Read) = "CR" /\ IsPrefix(frames[k].out, all)

----------------------------------------------------------------------------
(***************************************************************************)
(* Where the remote clients send what: the configuration of the MCP HTTP   *)
(* transports (mcp/sse/config.rs, endpoint.rs, streamable_http/config.rs)  *)
(* and of an A2A agent (a2a/config.rs), the endpoint or the interface the  *)
(* remote side then names, and the requests that follow                    *)
(* (a2a/client.rs, client/binding.rs, push.rs).       *)
(*                                                                         *)
(* A URL is its scheme, host and whether it carries userinfo; a request is *)
(* recorded with the URL it went to and whether it carried a credential.   *)
(***************************************************************************)

CONSTANTS Hosts,         \* host names; "localhost" is the loopback interface
          MaxRequests    \* requests of a connected client

ASSUME HostsAssumption == "localhost" \in Hosts

VARIABLES config,     \* the operator's configuration
          conn,       \* the connection: its transport, its endpoint, its card
          requests    \* requests sent, in order

remoteVars == <<config, conn, requests>>

Urls == [scheme : {"http", "https", "file"}, host : Hosts, userinfo : BOOLEAN]
Configs == [transport : {"sse", "streamable", "a2a"}, url : Urls, name : {"", "agent"},
            headers : {"none", "token", "reserved"}, allow_plaintext_credentials : BOOLEAN]
Interfaces == [binding : {"JSONRPC", "HTTP+JSON", "GRPC"}, version : {"1.1", "0.3"}, url : Urls]

NotConnected == [state |-> "new"]

RemoteInit == config \in Configs /\ conn = NotConnected /\ requests = <<>>

is_loopback(url) == url.host = "localhost"

\* validate_configured_url, check_url
check_url(url) == url.scheme \in {"http", "https"} /\ ~url.userinfo

refuses_credentials_in_clear_to(url) ==
    url.scheme = "http" /\ ~config.allow_plaintext_credentials /\ ~is_loopback(url)

refuses_plaintext_to(url) == config.headers # "none" /\ refuses_credentials_in_clear_to(url)

\* validate: of the three, the SSE transport has no header of its own to
\* reserve.
validate ==
    /\ config.name # ""
    /\ check_url(config.url)
    /\ config.headers = "reserved" => config.transport = "sse"
    /\ ~refuses_plaintext_to(config.url)

Request(url, inBody) == [to |-> url, credential |-> config.headers # "none" \/ inBody]
SendRequest(r) == requests' = Append(requests, r)

\* connect: the stream is opened, the session begun, or the card fetched.
open_client ==
    /\ conn.state = "new"
    /\ IF validate
       THEN /\ SendRequest(Request(config.url, FALSE))
            /\ conn' = IF config.transport = "streamable"
                       THEN [state |-> "connected", endpoint |-> config.url, binding |-> "JSONRPC"]
                       ELSE [state |-> "opened"]
       ELSE conn' = [state |-> "refused"] /\ UNCHANGED requests
    /\ UNCHANGED config

\* resolve_endpoint: the endpoint event names where requests are posted, on
\* the origin of the stream.
check_same_origin(url) == url.scheme = config.url.scheme /\ url.host = config.url.host

resolve_endpoint(url) ==
    /\ conn.state = "opened" /\ config.transport = "sse"
    /\ conn' = IF check_url(url) /\ check_same_origin(url)
               THEN [state |-> "connected", endpoint |-> url, binding |-> "JSONRPC"]
               ELSE [state |-> "refused"]
    /\ UNCHANGED <<config, requests>>

\* A binding and a major version this client speaks.
speaks_version(i) == i.version = "1.1"
from_declared(i) == i.binding \in {"JSONRPC", "HTTP+JSON"}

\* select_interface: the first of the card's interfaces that can be spoken, or
\* the connection fails; no later one is reached for.
select_interface(interfaces) ==
    /\ conn.state = "opened" /\ config.transport = "a2a"
    /\ LET spoken == {k \in 1..Len(interfaces) : from_declared(interfaces[k]) /\ speaks_version(interfaces[k])}
           first == interfaces[CHOOSE k \in spoken : \A j \in spoken : k <= j]
       IN IF spoken # {} /\ check_url(first.url) /\ ~refuses_plaintext_to(first.url)
          THEN conn' = [state |-> "connected", endpoint |-> first.url, binding |-> first.binding]
          ELSE conn' = [state |-> "refused"]
    /\ UNCHANGED <<config, requests>>

\* jsonrpc_request, rest_request, adopt_extended_card, post: an operation, to
\* the endpoint, with the configured headers.
call_value ==
    /\ conn.state = "connected" /\ Len(requests) < MaxRequests
    /\ SendRequest(Request(conn.endpoint, FALSE))
    /\ UNCHANGED <<config, conn>>

\* create_push_config: the request brings a credential of its own.
create_push_config ==
    /\ conn.state = "connected" /\ config.transport = "a2a" /\ Len(requests) < MaxRequests
    /\ IF refuses_credentials_in_clear_to(conn.endpoint) THEN UNCHANGED requests
       ELSE SendRequest(Request(conn.endpoint, TRUE))
    /\ UNCHANGED <<config, conn>>

\* http::send, post: a redirect is refused, never followed.
redirected ==
    /\ conn.state = "connected"
    /\ conn' = [state |-> "refused"]
    /\ UNCHANGED <<config, requests>>

-----------------------------------------------------------------------------

RemoteNext ==
    \/ open_client
    \/ \E url \in Urls : resolve_endpoint(url)
    \/ \E i \in Interfaces : select_interface(<<i>>)
    \/ \E i \in Interfaces : select_interface(<<[binding |-> "GRPC", version |-> "1.1", url |-> i.url], i>>)
    \/ call_value \/ create_push_config \/ redirected

\* Whatever endpoint or interface the remote side names, a request that carries
\* a credential goes over https or stays on the machine, unless the operator
\* said otherwise; and an MCP server cannot move its client to another origin.
CredentialsStayPrivate ==
    \A k \in 1..Len(requests) :
        LET url == requests[k].to
        IN /\ requests[k].credential /\ ~config.allow_plaintext_credentials =>
                url.scheme = "https" \/ url.host = "localhost"
           /\ config.transport # "a2a" => url.host = config.url.host /\ url.scheme = config.url.scheme
           /\ ~url.userinfo
=============================================================================
