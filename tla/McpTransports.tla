--------------------------- MODULE McpTransports ----------------------------
(***************************************************************************)
(* The three ways to a server of the Model Context Protocol                *)
(* (mentra/src/mcp): server-sent events, Streamable HTTP and a child       *)
(* process. Each is a specification of its own.                            *)
(***************************************************************************)
EXTENDS Naturals, FiniteSets

(***************************************************************************)
(* The client of an MCP server over HTTP and server-sent events            *)
(* (mcp/sse/client.rs): requests are posted, replies come back on one      *)
(* long-lived stream and are matched to the callers that wait for them.    *)
(* A stream may end at any time; the next call dials a new one.            *)
(*                                                                         *)
(* The HTTP library, the network and the server are external: a POST that  *)
(* has begun may reach the server, even after its caller is gone, or not.  *)
(***************************************************************************)

CONSTANTS SseCalls,      \* the tools/call requests of a behaviour
          MaxStreams,    \* streams dialled in a behaviour, the first included
          None           \* no holder, no reply

ASSUME MaxStreamsAssumption == MaxStreams \in Nat \ {0}

VARIABLES streams,    \* Session: closed, waiters, and those of them newer than quiet_since
          session,    \* the session calls are sent on
          holder,     \* who holds the session's mutex across a redial
          shut_down,  \* "no", "asked" (the flag is set), "done" (shutdown returned)
          rpc,        \* each call: where it is, its stream, its reply, its outcome
          post,       \* each call's POST: "none", "flight", "run", "refused"
          dialled     \* streams dialled so far

sseVars == <<streams, session, holder, shut_down, rpc, post, dialled>>

Streams == 1..MaxStreams
NewStream == [closed |-> FALSE, waiters |-> {}, late |-> {}]
NewCall == [pc |-> "new", on |-> 0, reply |-> None, out |-> None]

SseTypeOK ==
    /\ streams \in [Streams -> [closed : BOOLEAN, waiters : SUBSET SseCalls, late : SUBSET SseCalls]]
    /\ session \in Streams /\ holder \in SseCalls \union {None}
    /\ shut_down \in {"no", "asked", "done"}
    /\ \A c \in SseCalls : rpc[c].pc \in {"new", "locking", "dialling", "chosen", "posting", "waiting", "done"}
    /\ post \in [SseCalls -> {"none", "flight", "run", "refused"}]
    /\ dialled \in Streams

\* connect: the stream is open, the handshake is done, the tools are known.
SseInit ==
    /\ streams = [s \in Streams |-> [NewStream EXCEPT !.closed = s # 1]]
    /\ session = 1 /\ holder = None /\ shut_down = "no"
    /\ rpc = [c \in SseCalls |-> NewCall]
    /\ post = [c \in SseCalls |-> "none"]
    /\ dialled = 1

\* A request's PendingRegistration is dropped with its future.
Unregistered_Kept(c) == streams
Unregistered(c) ==
    [s \in Streams |-> [streams[s] EXCEPT !.waiters = @ \ {c}, !.late = @ \ {c}]]

End(c, outcome) == [rpc EXCEPT ![c].pc = "done", ![c].out = outcome]

-----------------------------------------------------------------------------
(* live_session: the mutex is held while a new stream is dialled. *)

call_tool(c) ==
    /\ rpc[c].pc = "new"
    /\ rpc' = [rpc EXCEPT ![c].pc = "locking"]
    /\ UNCHANGED <<streams, session, holder, shut_down, post, dialled>>

live_session(c) ==
    /\ rpc[c].pc = "locking" /\ holder = None
    /\ IF shut_down # "no"
       THEN rpc' = End(c, "Shutdown") /\ UNCHANGED <<streams, holder, dialled>>
       ELSE IF ~streams[session].closed
       THEN /\ rpc' = [rpc EXCEPT ![c].pc = "chosen", ![c].on = session]
            /\ UNCHANGED <<streams, holder, dialled>>
       ELSE /\ dialled < MaxStreams
            /\ holder' = c /\ dialled' = dialled + 1
            /\ streams' = [streams EXCEPT ![dialled + 1] = NewStream]
            /\ rpc' = [rpc EXCEPT ![c].pc = "dialling", ![c].on = dialled + 1]
    /\ UNCHANGED <<session, shut_down, post>>

\* Session::open and initialize succeed.  The new stream may have ended since;
\* it is installed all the same, and the next registration finds out.
Dialled(c) ==
    /\ rpc[c].pc = "dialling"
    /\ holder' = None
    /\ IF shut_down # "no"
       THEN /\ rpc' = End(c, "Shutdown")
            /\ streams' = [streams EXCEPT ![rpc[c].on].closed = TRUE]
            /\ UNCHANGED session
       ELSE /\ rpc' = [rpc EXCEPT ![c].pc = "chosen"]
            /\ session' = rpc[c].on
            /\ UNCHANGED streams
    /\ UNCHANGED <<shut_down, post, dialled>>

\* ... or fail, which drops the half-made session.
DialFails(c) ==
    /\ rpc[c].pc = "dialling"
    /\ holder' = None
    /\ rpc' = End(c, "DialFailed")
    /\ streams' = [streams EXCEPT ![rpc[c].on].closed = TRUE]
    /\ UNCHANGED <<session, shut_down, post, dialled>>

-----------------------------------------------------------------------------
(* request: registered before it is sent, under one deadline. *)

Register(c) ==
    /\ rpc[c].pc = "chosen"
    /\ IF streams[rpc[c].on].closed
       THEN rpc' = End(c, "StreamClosed") /\ UNCHANGED <<streams, post>>
       ELSE /\ streams' = [streams EXCEPT ![rpc[c].on].waiters = @ \union {c}, ![rpc[c].on].late = @ \union {c}]
            /\ rpc' = [rpc EXCEPT ![c].pc = "posting"]
            /\ post' = [post EXCEPT ![c] = "flight"]
    /\ UNCHANGED <<session, holder, shut_down, dialled>>

Posted(c) ==
    /\ rpc[c].pc = "posting"
    /\ rpc' = [rpc EXCEPT ![c].pc = "waiting"]
    /\ UNCHANGED <<streams, session, holder, shut_down, post, dialled>>

\* classify_post_failure, request_timeout: the server may have run the call.
SendFails(c) ==
    /\ rpc[c].pc \in {"posting", "waiting"}
    /\ rpc' = End(c, "Indeterminate")
    /\ streams' = Unregistered(c)
    /\ UNCHANGED <<session, holder, shut_down, post, dialled>>

\* The reply the reader or drain_pending left for the caller; a result that
\* does not have the shape of MCP's is a ParseError.
Replied(c) ==
    /\ rpc[c].pc = "waiting" /\ rpc[c].reply # None
    /\ \E told \in {rpc[c].reply} \union (IF rpc[c].reply = "result" THEN {"ParseError"} ELSE {}) :
        rpc' = End(c, told)
    /\ streams' = Unregistered(c)
    /\ UNCHANGED <<session, holder, shut_down, post, dialled>>

\* The caller stops waiting: the registration, or the half-made session, goes
\* with its future.
Abandon(c) ==
    /\ rpc[c].pc \notin {"new", "done"}
    /\ rpc' = End(c, "dropped")
    /\ holder' = IF holder = c THEN None ELSE holder
    /\ streams' = IF rpc[c].pc = "dialling" THEN [streams EXCEPT ![rpc[c].on].closed = TRUE]
                  ELSE Unregistered(c)
    /\ UNCHANGED <<session, shut_down, post, dialled>>

-----------------------------------------------------------------------------
(* The server, and the reader of a stream. *)

\* The server runs a call whose POST reached it, however late, or refuses it.
ServerTakes(c, did) ==
    /\ post[c] = "flight"
    /\ post' = [post EXCEPT ![c] = did]
    /\ UNCHANGED <<streams, session, holder, shut_down, rpc, dialled>>

\* deliver_message: the first reply with a waiter's id removes the waiter.  It
\* is a result, or a JSON-RPC error, which a call that ran may end in too.
\* Bytes arrived, so silence is counted from now.
deliver_message(s, c, reply) ==
    /\ ~streams[s].closed /\ rpc[c].on = s
    /\ post[c] \in {"run", "refused"} /\ (reply = "result" => post[c] = "run")
    /\ streams' = [streams EXCEPT ![s].late = {}, ![s].waiters = @ \ {c}]
    /\ rpc' = IF c \in streams[s].waiters THEN [rpc EXCEPT ![c].reply = reply] ELSE rpc
    /\ UNCHANGED <<session, holder, shut_down, post, dialled>>

\* drain_pending: a registered call may have been sent.
drain_pending_Refused(s) ==
    [c \in SseCalls |-> IF c \in streams[s].waiters THEN [rpc[c] EXCEPT !.reply = "StreamClosed"] ELSE rpc[c]]
drain_pending(s) ==
    [c \in SseCalls |-> IF c \in streams[s].waiters THEN [rpc[c] EXCEPT !.reply = "Indeterminate"] ELSE rpc[c]]

Closed(s) == [streams EXCEPT ![s] = [closed |-> TRUE, waiters |-> {}, late |-> {}]]

\* read_stream stops at the end of the body, an error or unreadable framing ...
StreamEnds(s) ==
    /\ s <= dialled /\ ~streams[s].closed
    /\ streams' = Closed(s)
    /\ rpc' = drain_pending(s)
    /\ UNCHANGED <<session, holder, shut_down, post, dialled>>

\* ... or after stream_idle_timeout of silence, unless a request is newer.
StreamIdle(s) ==
    /\ s <= dialled /\ ~streams[s].closed
    /\ IF streams[s].late # {}
       THEN streams' = [streams EXCEPT ![s].late = {}] /\ UNCHANGED rpc
       ELSE streams' = [streams EXCEPT ![s].closed = TRUE] /\ UNCHANGED rpc
    /\ UNCHANGED <<session, holder, shut_down, post, dialled>>

\* A stream given up for silence is marked closed first and drained after.
DrainIdle(s) ==
    /\ s <= dialled /\ streams[s].closed /\ streams[s].waiters # {}
    /\ streams' = Closed(s)
    /\ rpc' = drain_pending(s)
    /\ UNCHANGED <<session, holder, shut_down, post, dialled>>

-----------------------------------------------------------------------------
(* shutdown: the flag first, then the mutex, then the stream. *)

ShutDown ==
    /\ shut_down = "no"
    /\ shut_down' = "asked"
    /\ UNCHANGED <<streams, session, holder, rpc, post, dialled>>

CloseCurrent ==
    /\ shut_down = "asked" /\ holder = None
    /\ shut_down' = "done"
    /\ streams' = Closed(session)
    /\ rpc' = drain_pending(session)
    /\ UNCHANGED <<session, holder, post, dialled>>

SseNext ==
    \/ \E c \in SseCalls :
        \/ call_tool(c) \/ live_session(c) \/ Dialled(c) \/ DialFails(c)
        \/ Register(c) \/ Posted(c) \/ SendFails(c) \/ Replied(c) \/ Abandon(c)
        \/ \E did \in {"run", "refused"} : ServerTakes(c, did)
        \/ \E s \in Streams, reply \in {"result", "JsonRpc"} : deliver_message(s, c, reply)
    \/ \E s \in Streams : StreamEnds(s) \/ StreamIdle(s) \/ DrainIdle(s)
    \/ ShutDown \/ CloseCurrent

-----------------------------------------------------------------------------
(* Properties. *)

NotRun == {"StreamClosed", "Shutdown", "DialFailed"}

\* What a caller is told of a call falls into three classes.  A failure before
\* the request is sent is that of a call that was never posted and never will
\* be.  A result, one of the wrong shape and a JSON-RPC error are what the
\* server answered to that very call: the first two say that it ran, the third
\* that the server took it, and neither error says it did not run.  Everything
\* else is RequestIndeterminate, or the caller's own doing.
OutcomeIsHonest ==
    \A c \in SseCalls :
        /\ rpc[c].out \in NotRun => post[c] = "none"
        /\ rpc[c].out \in {"result", "ParseError"} => post[c] = "run"
        /\ rpc[c].out = "JsonRpc" => post[c] \in {"run", "refused"}
        /\ rpc[c].pc = "done" =>
            rpc[c].out \in NotRun \union {"result", "ParseError", "JsonRpc", "Indeterminate", "dropped"}

\* No waiter outlives its call, and no call waits for a reply that cannot come:
\* it is registered on a stream that is still read or will be drained, or its
\* reply is there.
WaitersAreLive ==
    /\ \A s \in Streams : \A c \in streams[s].waiters :
        rpc[c].pc \in {"posting", "waiting"} /\ rpc[c].on = s
    /\ \A c \in SseCalls : rpc[c].pc \in {"posting", "waiting"} =>
        \/ rpc[c].reply # None
        \/ c \in streams[rpc[c].on].waiters

\* Every open stream is the current one or the one being dialled, so callers
\* that lose a stream together share the next; once shutdown has returned,
\* none is open and none will be.
StreamsAreOwned ==
    /\ \A s \in Streams : ~streams[s].closed =>
        s = session \/ (holder # None /\ rpc[holder].on = s /\ rpc[holder].pc = "dialling")
    /\ shut_down = "done" => \A s \in Streams : streams[s].closed

----------------------------------------------------------------------------
(***************************************************************************)
(* The client of an MCP server over Streamable HTTP                        *)
(* (mcp/streamable_http/client.rs).  Every request is a POST that carries  *)
(* the session the server assigned.  A server may forget the session; the  *)
(* call it refuses for that starts a new one and is sent once more.  Calls *)
(* run concurrently and share the one session slot without a lock across   *)
(* its recovery.                                                           *)
(*                                                                         *)
(* The server is external: it assigns a session at initialize, refuses a   *)
(* request of a session it has forgotten with 404 and one without a        *)
(* session with 400, both before it dispatches the request.  What it       *)
(* dispatched it may have run, whatever it answers and if the answer is    *)
(* lost.                                                                   *)
(***************************************************************************)

CONSTANTS HttpCalls,     \* the tools/call requests of a behaviour
          MaxSessions,   \* sessions the server assigns, the first included
          NoSession      \* no session id

ASSUME MaxSessionsAssumption == MaxSessions \in Nat \ {0}

VARIABLES slot,       \* Session.id
          alive,      \* sessions the server remembers
          assigned,   \* sessions the server has assigned
          req,        \* each call: where it is, its attempt, the id it carried, the answer
          runs,       \* how often the server ran each call
          ending      \* shutdown: "no", an id whose DELETE is out, "done"

httpVars == <<slot, alive, assigned, req, runs, ending>>

SessionIds == 1..MaxSessions
NewRequest == [pc |-> "new", attempt |-> 1, with |-> NoSession, got |-> "nothing", out |-> "nothing"]

HttpTypeOK ==
    /\ slot \in SessionIds \union {NoSession} /\ alive \subseteq SessionIds
    /\ assigned \in SessionIds
    /\ \A c \in HttpCalls : /\ req[c].attempt \in 1..2
                            /\ req[c].with \in SessionIds \union {NoSession}
    /\ runs \in [HttpCalls -> 0..2]

\* connect: the handshake is done and the server has assigned session 1.
HttpInit ==
    /\ slot = 1 /\ alive = {1} /\ assigned = 1
    /\ req = [c \in HttpCalls |-> NewRequest]
    /\ runs = [c \in HttpCalls |-> 0]
    /\ ending = "no"

Finish(c, outcome) == req' = [req EXCEPT ![c].pc = "done", ![c].out = outcome]

\* attempt, post: request_headers reads the slot when the request is sent.
attempt(c) ==
    /\ req[c].pc \in {"new", "again"}
    /\ req' = [req EXCEPT ![c].pc = "sent", ![c].with = slot, ![c].got = "nothing",
                          ![c].attempt = IF req[c].pc = "again" THEN 2 ELSE 1]
    /\ UNCHANGED <<slot, alive, assigned, runs, ending>>

\* The server takes a request: it may run it before it answers 2xx, with a
\* result or a JSON-RPC error, or fails (5xx, or no answer at all).
Served(c) ==
    /\ req[c].pc = "sent" /\ req[c].got = "nothing"
    /\ IF req[c].with \in alive
       THEN \E got \in {"result", "JsonRpc", "5xx", "lost"}, ran \in {0, 1} :
               /\ got = "result" => ran = 1
               /\ req' = [req EXCEPT ![c].got = got]
               /\ runs' = [runs EXCEPT ![c] = @ + ran]
       ELSE /\ req' = [req EXCEPT ![c].got = IF req[c].with = NoSession THEN "400" ELSE "404"]
            /\ UNCHANGED runs
    /\ UNCHANGED <<slot, alive, assigned, ending>>

\* classify_failure: of a tools/call, only a 4xx is known not to have run.
classify_failure(got) == IF got \in {"400", "404"} THEN "HttpStatus" ELSE "Indeterminate"

\* What becomes of a 2xx answer: reply_failure when it cannot be read, and
\* request's ParseError for a result that does not have the shape of MCP's.
AnswersOf2xx == {"result", "JsonRpc"}
Outcomes2xx(got) == {got, "Indeterminate"} \union (IF got = "result" THEN {"ParseError"} ELSE {})

\* request, post: had_session is read when the answer arrives, not when the
\* request was sent.  A second SessionExpired is the caller's.
Answered(c) ==
    /\ req[c].pc = "sent" /\ req[c].got # "nothing"
    /\ \/ req[c].got \in AnswersOf2xx /\ \E out \in Outcomes2xx(req[c].got) : Finish(c, out)
       \/ /\ req[c].got = "404" /\ slot # NoSession
          /\ IF req[c].attempt = 1 THEN req' = [req EXCEPT ![c].pc = "expired"]
             ELSE Finish(c, "SessionExpired")
       \/ /\ req[c].got \notin AnswersOf2xx /\ (req[c].got = "404" => slot = NoSession)
          /\ Finish(c, classify_failure(req[c].got))
    /\ UNCHANGED <<slot, alive, assigned, runs, ending>>

\* attempt's deadline: the request may still be on its way to the server.
TimedOut(c) ==
    /\ req[c].pc = "sent"
    /\ Finish(c, "Indeterminate")
    /\ UNCHANGED <<slot, alive, assigned, runs, ending>>

\* The server takes a request whose caller no longer waits for it.
ServedLate(c) ==
    /\ req[c].pc = "done" /\ req[c].got = "nothing"
    /\ req[c].out \in {"Indeterminate", "dropped"} /\ req[c].with \in alive
    /\ runs' = [runs EXCEPT ![c] = @ + 1]
    /\ req' = [req EXCEPT ![c].got = "late"]
    /\ UNCHANGED <<slot, alive, assigned, ending>>

-----------------------------------------------------------------------------
(* reestablish_session: forget the id, initialize, adopt, notify. *)

reestablish_session(c) ==
    /\ req[c].pc = "expired"
    /\ slot' = NoSession
    /\ req' = [req EXCEPT ![c].pc = "handshake"]
    /\ UNCHANGED <<alive, assigned, runs, ending>>

\* handshake, adopt_session, adopt_protocol_version; or initialize fails,
\* before or after the server assigned a session.
handshake(c) ==
    /\ req[c].pc = "handshake" /\ assigned < MaxSessions
    /\ \/ /\ assigned' = assigned + 1 /\ alive' = alive \union {assigned + 1}
          /\ slot' = assigned + 1
          /\ req' = [req EXCEPT ![c].pc = "notify"]
       \/ /\ Finish(c, "HandshakeFailed")
          /\ \/ assigned' = assigned + 1 /\ alive' = alive \union {assigned + 1}
             \/ UNCHANGED <<assigned, alive>>
          /\ UNCHANGED slot
    /\ UNCHANGED <<runs, ending>>

\* notify: sent with the slot of that moment, refused like any request.
notify(c) ==
    /\ req[c].pc = "notify"
    /\ IF slot \in alive
       THEN \/ req' = [req EXCEPT ![c].pc = "again"]
            \/ Finish(c, "HandshakeFailed")
       ELSE Finish(c, "HandshakeFailed")
    /\ UNCHANGED <<slot, alive, assigned, runs, ending>>

-----------------------------------------------------------------------------

\* The server forgets a session.
Forget(s) ==
    /\ s \in alive
    /\ alive' = alive \ {s}
    /\ UNCHANGED <<slot, assigned, req, runs, ending>>

\* shutdown: nothing to do without a session; otherwise DELETE the one in the
\* slot, which may fail unnoticed, then clear
\* whatever the slot holds by then.
shutdown ==
    /\ ending = "no"
    /\ ending' = IF slot = NoSession THEN "done" ELSE "deleting"
    /\ alive' \in {alive, alive \ {slot}}
    /\ UNCHANGED <<slot, assigned, req, runs>>

ShutdownClears ==
    /\ ending = "deleting"
    /\ ending' = "done" /\ slot' = NoSession
    /\ UNCHANGED <<alive, assigned, req, runs>>

Dropped(c) ==
    /\ req[c].pc \notin {"new", "done"}
    /\ Finish(c, "dropped")
    /\ UNCHANGED <<slot, alive, assigned, runs, ending>>

HttpNext ==
    \/ \E c \in HttpCalls :
        \/ attempt(c) \/ Served(c) \/ Answered(c) \/ TimedOut(c) \/ ServedLate(c)
        \/ reestablish_session(c) \/ handshake(c) \/ notify(c) \/ Dropped(c)
    \/ \E s \in SessionIds : Forget(s)
    \/ shutdown \/ ShutdownClears

-----------------------------------------------------------------------------
(* Properties. *)

\* Sending a call again after its session was forgotten never runs it twice.  A
\* failure that is neither RequestIndeterminate nor an answer of the server's
\* means that the call did not run and will not; a result, and one of the wrong
\* shape (ParseError), that it ran.  A JSON-RPC error leaves that open.
ResendIsSafe ==
    \A c \in HttpCalls :
        /\ runs[c] <= 1
        /\ req[c].out \in {"HttpStatus", "SessionExpired", "HandshakeFailed"} => runs[c] = 0
        /\ req[c].out \in {"result", "ParseError"} => runs[c] = 1

\* The comment on request: "A server may forget a session at any time, and the
\* specification requires the client to start a new one rather than give up."
\* A call whose first attempt was refused because its session was forgotten
\* starts a new one while the client is in use; it never ends there, with the
\* refusal.
ExpiredIsRecovered ==
    ending = "no" => \A c \in HttpCalls :
        ~(req[c].attempt = 1 /\ req[c].got = "404" /\ req[c].out = "HttpStatus")

----------------------------------------------------------------------------
(***************************************************************************)
(* The client of an MCP server run as a child process (mcp/client.rs).     *)
(* Requests are lines on the child's stdin; a reader task matches the      *)
(* lines of its stdout to the callers that wait.  The child process is     *)
(* external: it reads whole lines, may answer, may exit at any time.       *)
(***************************************************************************)

CONSTANTS StdioCalls,    \* requests of a behaviour
          Nobody         \* no holder, no reply

VARIABLES pending,    \* PendingMap: the requests with a registration
          stdin,      \* holder of the stdin mutex, and whether a torn line is in the pipe
          io,         \* each request: where it is, its reply, its outcome
          line,       \* each request's line: "unwritten", "written", "lost", "run"
          child,      \* the server process is alive
          reader      \* "reading", "ended" (before terminate and drain), "gone"

stdioVars == <<pending, stdin, io, line, child, reader>>

StdioTypeOK ==
    /\ pending \subseteq StdioCalls
    /\ stdin \in [holder : StdioCalls \union {Nobody}, torn : BOOLEAN]
    /\ \A c \in StdioCalls : io[c].pc \in {"new", "registered", "writing", "waiting", "done"}
    /\ line \in [StdioCalls -> {"unwritten", "written", "lost", "run"}]
    /\ child \in BOOLEAN /\ reader \in {"reading", "ended", "gone"}

\* connect: the handshake and the discovery of the tools are over.
StdioInit ==
    /\ pending = {} /\ stdin = [holder |-> Nobody, torn |-> FALSE]
    /\ io = [c \in StdioCalls |-> [pc |-> "new", reply |-> Nobody, out |-> Nobody]]
    /\ line = [c \in StdioCalls |-> "unwritten"]
    /\ child = TRUE /\ reader = "reading"

Ended(c, outcome) == [io EXCEPT ![c].pc = "done", ![c].out = outcome]

\* call: registered before a byte is written.
call(c) ==
    /\ io[c].pc = "new"
    /\ pending' = pending \union {c}
    /\ io' = [io EXCEPT ![c].pc = "registered"]
    /\ UNCHANGED <<stdin, line, child, reader>>

LockStdin(c) ==
    /\ io[c].pc = "registered" /\ stdin.holder = Nobody
    /\ stdin' = [stdin EXCEPT !.holder = c]
    /\ io' = [io EXCEPT ![c].pc = "writing"]
    /\ UNCHANGED <<pending, line, child, reader>>

\* write_all, flush.  A line written behind a torn one is glued to it: the
\* child reads neither.
Written(c) ==
    /\ io[c].pc = "writing" /\ child
    /\ stdin' = [holder |-> Nobody, torn |-> FALSE]
    /\ line' = [line EXCEPT ![c] = IF stdin.torn THEN "lost" ELSE "written"]
    /\ io' = [io EXCEPT ![c].pc = "waiting"]
    /\ UNCHANGED <<pending, child, reader>>

WriteFails(c) ==
    /\ io[c].pc = "writing" /\ ~child
    /\ stdin' = [stdin EXCEPT !.holder = Nobody]
    /\ pending' = pending \ {c}
    /\ io' = Ended(c, "NotSent")
    /\ UNCHANGED <<line, child, reader>>

StdioReplied(c) ==
    /\ io[c].pc = "waiting" /\ io[c].reply # Nobody
    /\ io' = Ended(c, io[c].reply)
    /\ UNCHANGED <<pending, stdin, line, child, reader>>

Timeout(c) ==
    /\ io[c].pc = "waiting"
    /\ pending' = pending \ {c}
    /\ io' = Ended(c, "Timeout")
    /\ UNCHANGED <<stdin, line, child, reader>>

\* The caller's future is dropped: the mutex is released, what was written of
\* the line stays in the pipe, the registration stays in the map.
Cancel(c) ==
    /\ io[c].pc \in {"registered", "writing", "waiting"}
    /\ io' = Ended(c, "dropped")
    /\ stdin' = IF stdin.holder = c THEN [holder |-> Nobody, torn |-> stdin.torn \/ child] ELSE stdin
    /\ UNCHANGED <<pending, line, child, reader>>

-----------------------------------------------------------------------------

ChildRuns(c) ==
    /\ child /\ line[c] = "written"
    /\ line' = [line EXCEPT ![c] = "run"]
    /\ UNCHANGED <<pending, stdin, io, child, reader>>

\* The reader takes a response line: the registration with its id is removed,
\* so a second response to it finds nobody.
Deliver(c) ==
    /\ child /\ reader = "reading" /\ line[c] = "run"
    /\ pending' = pending \ {c}
    /\ io' = IF c \in pending THEN [io EXCEPT ![c].reply = "answered"] ELSE io
    /\ UNCHANGED <<stdin, line, child, reader>>

\* EOF, an unreadable or an oversized line ends the reader: it terminates the
\* child, then tells everyone who waits.
ReaderEnds ==
    /\ reader = "reading"
    /\ reader' = "ended"
    /\ child' = FALSE
    /\ UNCHANGED <<pending, stdin, io, line>>

Drain ==
    /\ reader = "ended"
    /\ reader' = "gone"
    /\ pending' = {}
    /\ io' = [c \in StdioCalls |-> IF c \in pending THEN [io[c] EXCEPT !.reply = "ProcessExited"] ELSE io[c]]
    /\ UNCHANGED <<stdin, line, child>>

\* shutdown terminates the child; its closed stdout then ends the reader.
Terminate ==
    /\ child
    /\ child' = FALSE
    /\ UNCHANGED <<pending, stdin, io, line, reader>>

StdioNext ==
    \/ \E c \in StdioCalls :
        \/ call(c) \/ LockStdin(c) \/ Written(c) \/ WriteFails(c) \/ StdioReplied(c)
        \/ Timeout(c) \/ Cancel(c) \/ ChildRuns(c) \/ Deliver(c)
    \/ ReaderEnds \/ Drain \/ Terminate

-----------------------------------------------------------------------------

\* Who waits is registered or already answered, so the reader's end reaches
\* everyone; a registration whose caller is gone is that of a dropped call; and
\* a call that failed because it could not be written did not run.
StdioIsAnswered ==
    /\ \A c \in StdioCalls : io[c].pc \in {"registered", "writing", "waiting"} =>
        c \in pending \/ io[c].reply # Nobody
    /\ \A c \in pending : io[c].pc = "done" => io[c].out = "dropped"
    /\ \A c \in StdioCalls : io[c].out = "NotSent" => line[c] = "unwritten"
=============================================================================
