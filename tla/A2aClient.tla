----------------------------- MODULE A2aClient ------------------------------
(***************************************************************************)
(* The agent-to-agent client (mentra/src/a2a): one exchange as its tool    *)
(* sees it, the calls on a connection, and the tool that hands work over.  *)
(***************************************************************************)
EXTENDS Naturals, Sequences, FiniteSets, FiniteSetsExt, SequencesExt

(***************************************************************************)
(* Handing work to a remote A2A agent and waiting for it                   *)
(* (a2a/exchange.rs, exchange/follow.rs, exchange/wait.rs), as the tool of *)
(* a2a/tool.rs does: a message is sent once, the task it started is        *)
(* followed by its stream and then polled, and a task still working is     *)
(* handed back with its id, to be resumed by a later call.                 *)
(*                                                                         *)
(* The remote agent and the network are external.  The caller does what    *)
(* the replies tell it: it resumes a task it was handed back, answers one  *)
(* that needs input, and otherwise sends nothing again.                    *)
(***************************************************************************)

CONSTANTS MaxCalls,      \* calls of the tool
          Artifacts,     \* artifact ids
          MaxHeld,       \* max_response_bytes, in units of an artifact part
          MaxUpdates     \* artifact updates and snapshots of a stream

ASSUME MaxCallsAssumption == MaxCalls \in Nat \ {0}

VARIABLES remote,     \* the remote task's state, and what it holds
          created,    \* tasks the agent created
          canceled,   \* a CancelTask reached the agent
          told,       \* the stream's status updates not yet read
          run,        \* the run's cancellation and stop, and the wait bound
          ex,         \* the exchange in progress
          held,       \* Held: the sizes counted, and their total
          calls, updates

a2aVars == <<remote, created, canceled, told, run, ex, held, calls, updates>>

Terminal == {"completed", "failed", "canceled"}
is_settled(state) == state \in Terminal \union {"input"}

NoArtifacts == [a \in Artifacts |-> 0]
NewExchange == [pc |-> "idle", view |-> "none", armed |-> FALSE, streams |-> FALSE, parts |-> NoArtifacts,
                out |-> "none"]
NotHeld == [sizes |-> NoArtifacts, total |-> 0]

A2aInit ==
    /\ remote = "none" /\ created = 0 /\ canceled = FALSE /\ told = <<>>
    /\ run = [cancelled |-> FALSE, stopping |-> FALSE, late |-> FALSE]
    /\ ex = NewExchange /\ held = NotHeld /\ calls = 0 /\ updates = 0

-----------------------------------------------------------------------------
(* submit *)

\* exchange: a Send, or a Resume of the task an earlier call handed back.
\* The wait bound of the call starts now.
exchange(streams) ==
    /\ ex.pc = "idle" /\ calls < MaxCalls /\ ~run.cancelled /\ ~run.stopping
    /\ ex.out \in {"none", "input", "WaitBound", "Poll", "Send"}
    /\ calls' = calls + 1
    /\ ex' = [NewExchange EXCEPT !.pc = IF ex.out \in {"none", "input"} THEN "send" ELSE "resume",
                                 !.streams = streams, !.out = "pending"]
    /\ run' = [run EXCEPT !.late = FALSE]
    /\ told' = <<>> /\ held' = NotHeld
    /\ UNCHANGED <<remote, created, canceled, updates>>

\* The agent accepts the message: a new task, or the one waiting for input.
Accept(state) ==
    /\ remote' = state
    /\ created' = IF remote = "none" THEN created + 1 ELSE created

\* send_failure: what proves the message was not accepted is reported as it
\* is; everything else may have happened after it was.
send_failure_Definite(failure) == "Refused"
send_failure(failure) == IF failure \in {"4xx", "Connect", "Rpc"} THEN "Refused" ELSE "Indeterminate"

\* send_message, answered: with a task, or with a message that needs none.
Submitted ==
    /\ ex.pc = "send"
    /\ \/ /\ remote \in {"none", "input"}
          /\ \E state \in {"working", "input", "completed"} :
                Accept(state) /\ ex' = [ex EXCEPT !.pc = "settle", !.view = state, !.armed = TRUE]
       \/ /\ remote = "none"
          /\ ex' = [ex EXCEPT !.pc = "idle", !.out = "Reply"]
          /\ UNCHANGED <<remote, created>>
    /\ UNCHANGED <<canceled, told, run, held, calls, updates>>

\* ... or not: the refusals leave the agent as it was, the others may not.
SendFailed(failure) ==
    /\ ex.pc = "send"
    /\ ex' = [ex EXCEPT !.pc = "idle", !.out = send_failure(failure)]
    /\ \/ UNCHANGED <<remote, created>>
       \/ failure \in {"timeout", "5xx", "decode"} /\ remote \in {"none", "input"} /\ Accept("working")
    /\ UNCHANGED <<canceled, told, run, held, calls, updates>>

\* A read of the task that fails is reported as a send that did; the caller
\* still has the id it named.
Resumed ==
    /\ ex.pc = "resume"
    /\ \/ ex' = [ex EXCEPT !.pc = "settle", !.view = remote, !.armed = TRUE]
       \/ ex' = [ex EXCEPT !.pc = "idle", !.out = "Send"]
    /\ UNCHANGED <<remote, created, canceled, told, run, held, calls, updates>>

-----------------------------------------------------------------------------
(* settle_from: follow the stream if there is one, then poll. *)

settle_from ==
    /\ ex.pc = "settle"
    /\ ex' = [ex EXCEPT !.pc = IF ex.streams /\ ~is_settled(ex.view) THEN "follow" ELSE "check"]
    /\ UNCHANGED <<remote, created, canceled, told, run, held, calls, updates>>

Settle(e) == IF is_settled(e.view) THEN [e EXCEPT !.pc = "check"] ELSE e

\* stream_until_settled: a status update.
apply_status ==
    /\ ex.pc = "follow" /\ told # <<>>
    /\ ex' = Settle([ex EXCEPT !.view = Head(told)])
    /\ told' = Tail(told)
    /\ UNCHANGED <<remote, created, canceled, run, held, calls, updates>>

\* Held::set
set(h, a, size) == [sizes |-> [h.sizes EXCEPT ![a] = size], total |-> h.total - h.sizes[a] + size]

\* Held::update, apply_artifact: an artifact of one part, new, replacing or
\* appended.  A stream that outgrows the reply bound is given up.
apply_artifact(a, append) ==
    /\ ex.pc = "follow" /\ updates < MaxUpdates
    /\ updates' = updates + 1
    /\ LET size == IF append THEN held.sizes[a] + 1 ELSE 1
       IN /\ held' = set(held, a, size)
          /\ ex' = [ex EXCEPT !.parts[a] = IF append THEN @ + 1 ELSE 1,
                              !.pc = IF held'.total > MaxHeld THEN "check" ELSE "follow"]
    /\ UNCHANGED <<remote, created, canceled, told, run, calls>>

\* A task snapshot replaces the task and what was counted (Held::reset).
Snapshot(parts) ==
    /\ ex.pc = "follow" /\ updates < MaxUpdates
    /\ updates' = updates + 1
    /\ held' = [sizes |-> parts, total |-> MapThenSumSet(LAMBDA a : parts[a], Artifacts)]
    /\ told' = <<>>
    /\ ex' = Settle([ex EXCEPT !.view = remote, !.parts = parts,
                               !.pc = IF held'.total > MaxHeld THEN "check" ELSE "follow"])
    /\ UNCHANGED <<remote, created, canceled, run, calls>>

\* Subscribing failed, the stream failed, idled or ended: polling takes over.
StreamGivenUp ==
    /\ ex.pc = "follow"
    /\ ex' = [ex EXCEPT !.pc = "check"]
    /\ told' = <<>>
    /\ UNCHANGED <<remote, created, canceled, run, held, calls, updates>>

\* The head of the polling loop: settled, or out of time, or wait.
CheckSettled ==
    /\ ex.pc = "check"
    /\ IF is_settled(ex.view) THEN ex' = [ex EXCEPT !.pc = "idle", !.armed = FALSE, !.out = ex.view]
       ELSE IF run.late THEN ex' = [ex EXCEPT !.pc = "idle", !.armed = FALSE, !.out = "WaitBound"]
       ELSE ex' = [ex EXCEPT !.pc = "wait"]
    /\ UNCHANGED <<remote, created, canceled, told, run, held, calls, updates>>

PollDue ==
    /\ ex.pc = "wait"
    /\ ex' = [ex EXCEPT !.pc = "get"]
    /\ UNCHANGED <<remote, created, canceled, told, run, held, calls, updates>>

\* GetTask is not raced with the run.
get_task ==
    /\ ex.pc = "get"
    /\ \/ ex' = [ex EXCEPT !.pc = "check", !.view = remote]
       \/ ex' = [ex EXCEPT !.pc = "idle", !.armed = FALSE, !.out = "Poll"]
    /\ UNCHANGED <<remote, created, canceled, told, run, held, calls, updates>>

\* race, wait: the run's cancellation first, then its stop, then the bound.
Woken ==
    /\ ex.pc \in {"follow", "wait"}
    /\ \/ run.cancelled /\ ex' = [ex EXCEPT !.pc = "cancel", !.armed = FALSE]
       \/ /\ ~run.cancelled /\ run.stopping
          /\ ex' = [ex EXCEPT !.pc = "idle", !.armed = FALSE, !.out = "RunStopping"]
       \/ /\ ~run.cancelled /\ ~run.stopping /\ run.late
          /\ ex' = [ex EXCEPT !.pc = "idle", !.armed = FALSE, !.out = "WaitBound"]
    /\ UNCHANGED <<remote, created, canceled, told, run, held, calls, updates>>

\* The agent takes a CancelTask: a task that has not ended may be canceled.
TakeCancel ==
    /\ canceled' = TRUE
    /\ remote' \in IF remote \in Terminal THEN {remote} ELSE {remote, "canceled"}

cancel_task ==
    /\ ex.pc = "cancel"
    /\ ex' = [ex EXCEPT !.pc = "idle", !.out = "Abandoned"]
    /\ TakeCancel \/ UNCHANGED <<remote, canceled>>
    /\ UNCHANGED <<created, told, run, held, calls, updates>>

\* The future is dropped.  CancelOnDrop, armed, cancels from a detached task,
\* if there is a runtime to spawn it on.
DropExchange ==
    /\ ex.pc # "idle" \/ ex.armed
    /\ ex' = [ex EXCEPT !.pc = "idle", !.armed = FALSE, !.out = IF ex.pc = "idle" THEN @ ELSE "dropped"]
    /\ IF ex.armed THEN TakeCancel \/ UNCHANGED <<remote, canceled>> ELSE UNCHANGED <<remote, canceled>>
    /\ told' = <<>>
    /\ UNCHANGED <<created, run, held, calls, updates>>

-----------------------------------------------------------------------------
(* The environment. *)

RemoteMoves(state) ==
    /\ remote = "working" /\ state \in {"input", "completed", "failed"}
    /\ remote' = state
    /\ told' = IF ex.pc = "follow" THEN Append(told, state) ELSE told
    /\ UNCHANGED <<created, canceled, run, ex, held, calls, updates>>

\* The run is cancelled or asked to stop, or the wait bound passes, at any time
\* during a call.
RunChanges ==
    /\ ex.pc # "idle"
    /\ \/ ~run.cancelled /\ run' = [run EXCEPT !.cancelled = TRUE]
       \/ ~run.stopping /\ run' = [run EXCEPT !.stopping = TRUE]
       \/ ~run.late /\ run' = [run EXCEPT !.late = TRUE]
    /\ UNCHANGED <<remote, created, canceled, told, ex, held, calls, updates>>

A2aNext ==
    \/ \E streams \in BOOLEAN : exchange(streams)
    \/ Submitted \/ Resumed \/ settle_from \/ apply_status \/ StreamGivenUp
    \/ \E f \in {"4xx", "Connect", "Rpc", "timeout", "5xx", "decode"} : SendFailed(f)
    \/ \E a \in Artifacts, append \in BOOLEAN : apply_artifact(a, append)
    \/ \E parts \in [Artifacts -> 0..1] : Snapshot(parts)
    \/ CheckSettled \/ PollDue \/ get_task \/ Woken \/ cancel_task \/ DropExchange
    \/ \E s \in {"input", "completed", "failed"} : RemoteMoves(s)
    \/ RunChanges

-----------------------------------------------------------------------------
(* Properties. *)

\* However a call ends and however often it is repeated, one piece of work is
\* one remote task: a caller that is told the message was not accepted can send
\* it again, and one that is not told so has nothing to send.  A result names
\* the state the task is in, when no later step can change it.
OneTaskPerMessage ==
    /\ created <= 1
    /\ ex.out = "Refused" /\ calls = 1 => created = 0
    /\ ex.out \in Terminal => remote = ex.out

\* The remote task is asked to cancel only for a cancelled run or a dropped
\* call: a task handed back to be resumed is never cancelled behind the caller.
HandedBackIsLeftAlone == canceled => ex.out \in {"Abandoned", "dropped"}

\* What the follower counts against the reply bound is what it holds: a
\* replacement counts once, a snapshot replaces the count.
HeldIsCounted ==
    ex.pc = "follow" => /\ held.total = MapThenSumSet(LAMBDA a : ex.parts[a], Artifacts)
                        /\ held.sizes = ex.parts
                        /\ held.total <= MaxHeld

\* The tool's documentation: "The wait checks the run's cancellation and
\* deadline throughout. A cancelled run asks the remote agent to cancel the
\* task before the call returns".
CancelledIsCancelled ==
    run.cancelled /\ ex.pc = "idle" /\ ex.out \in {"WaitBound", "Poll"} => canceled

----------------------------------------------------------------------------
(***************************************************************************)
(* One connection to a remote A2A agent (a2a/client.rs): connecting and    *)
(* adopting the extended card, the calls, what each binding makes of a     *)
(* reply (client/jsonrpc.rs, client/rest.rs), what a failed send is        *)
(* reported as, and the reader of a streaming call's events                *)
(* (client/sse.rs).                                                        *)
(*                                                                         *)
(* The agent and the network are external: a request may be lost before    *)
(* or after the agent acts on it, and a reply may carry any status and     *)
(* body.  An agent that answers a request with a 4xx or with an A2A error  *)
(* has not acted on it.  Framing bytes into events is SseFrames.           *)
(***************************************************************************)

CONSTANTS A2aTasks,      \* task ids
          NoA2aTask,     \* no task is named
          MaxA2aCalls,   \* calls on one connection
          MaxArrivals    \* events of one stream

VARIABLES peer,      \* the connection: binding, card, the state it is in
          next_id,   \* operations sent; over JSON-RPC, the last Transport::next_id
          asked,     \* the operation under way, and what became of it
          acted,     \* the agent acted on the operation
          event_reader,    \* Reader: what one stream holds
          arrived,   \* the events the stream has brought
          given      \* what the stream has handed out

callVars == <<peer, next_id, asked, acted, event_reader, arrived, given>>

Bindings == {"JsonRpc", "HttpJson"}
Sends == {"send_message", "send_streaming_message"}
StreamOps == {"send_streaming_message", "subscribe_to_task"}
AboutTask == {"get_task", "cancel_task", "subscribe_to_task"}

Statuses == {"2xx", "4xx", "405", "5xx"}
Bodies == {"result", "error", "junk", "empty", "events"}
Replies == [status : Statuses, body : Bodies, id : {"ours", "null", "other"},
            about : A2aTasks \union {NoA2aTask}]

NotAsked == [op |-> "none", task |-> NoA2aTask, verb |-> "none", out |-> "none", about |-> NoA2aTask]
NoReader == [open |-> FALSE, expected |-> NoA2aTask, ready |-> <<>>, failure |-> "none",
             ended |-> FALSE, finished |-> FALSE]

CallsInit ==
    /\ peer = [state |-> "new", binding |-> "JsonRpc", card |-> "none", extended |-> "NotDeclared",
               keys |-> FALSE]
    /\ next_id = 0 /\ asked = NotAsked /\ acted = FALSE
    /\ event_reader = NoReader /\ arrived = <<>> /\ given = <<>>

-----------------------------------------------------------------------------
(* Connecting *)

\* client_connect: the public card, and the first interface it offers that this
\* client speaks.  When it declares an extended card, that is asked for
\* before the client is handed out, if there are credentials to present.
client_connect(binding, keys, declares) ==
    /\ peer.state = "new"
    /\ LET asks == declares /\ keys
       IN peer' = [state |-> IF asks THEN "adopting" ELSE "ready", binding |-> binding, card |-> "public",
                   keys |-> keys,
                   extended |-> IF declares /\ ~keys THEN "NoCredentials" ELSE "NotDeclared"]
    /\ UNCHANGED <<next_id, asked, acted, event_reader, arrived, given>>

ConnectFails ==
    /\ peer.state = "new"
    /\ peer' = [peer EXCEPT !.state = "refused"]
    /\ UNCHANGED <<next_id, asked, acted, event_reader, arrived, given>>

\* adopt_extended_card: the card fetched becomes the client's; a failure
\* keeps the public one, and says so.
adopt_extended_card(out) ==
    IF peer.state # "adopting" THEN peer
    ELSE [peer EXCEPT !.state = "ready",
                      !.card = IF out = "Ok" THEN "extended" ELSE "public",
                      !.extended = IF out = "Ok" THEN "InUse" ELSE "Unavailable"]

-----------------------------------------------------------------------------
(* Calls *)

Success(status) == status = "2xx"
StatusError(status) == IF status = "5xx" THEN "Status5" ELSE "Status4"

\* decode_envelope: an error with no id is about this request too, since
\* one the agent could not parse has no id to repeat.
decode_envelope(body, id) ==
    IF body = "error" THEN IF id = "other" THEN "MismatchedReplyId" ELSE "Rpc"
    ELSE IF id # "ours" THEN "MismatchedReplyId" ELSE "Ok"

\* jsonrpc::decode_reply: an envelope is read whatever the status; a body
\* that is no envelope is reported by its status.
decode_jsonrpc(reply) ==
    IF reply.body \notin {"result", "error"}
    THEN IF Success(reply.status) THEN "Decode" ELSE StatusError(reply.status)
    ELSE LET out == decode_envelope(reply.body, reply.id)
         IN IF out = "Ok" /\ ~Success(reply.status) THEN StatusError(reply.status) ELSE out

\* rest::decode_reply, and the result read into its type: an empty body is
\* Null, and an error's body under a success is no result.  list_tasks fills
\* in what an object leaves out, so any object is a page.
decode_rest(reply, op) ==
    IF ~Success(reply.status)
    THEN IF reply.body = "error" THEN "Rpc" ELSE StatusError(reply.status)
    ELSE IF reply.body = "result" \/ (reply.body = "error" /\ op = "list_tasks") THEN "Ok"
    ELSE "Decode"

decode_reply(reply, op) ==
    IF peer.binding = "JsonRpc" THEN decode_jsonrpc(reply) ELSE decode_rest(reply, op)

\* send_failure: only what proves that the agent never took the message is
\* reported as itself.
send_failure_of(out) == IF out \in {"Ok", "Open", "Connect", "Status4", "Rpc"} THEN out ELSE "SendIndeterminate"

\* What the caller of the operation is told.
Reported(out) == IF asked.op \in Sends THEN send_failure_of(out) ELSE out

\* One operation is sent, under a new id over JSON-RPC.
Operate(op, verb, task) ==
    /\ peer.state = (IF op = "get_extended_card" THEN "adopting" ELSE "ready")
    /\ asked.out # "pending" /\ next_id < MaxA2aCalls /\ ~event_reader.open
    /\ next_id' = next_id + 1
    /\ asked' = [op |-> op, task |-> task, verb |-> verb, out |-> "pending", about |-> NoA2aTask]
    /\ acted' = FALSE /\ event_reader' = NoReader /\ arrived' = <<>> /\ given' = <<>>
    /\ UNCHANGED peer

\* A message may name the task it answers; the others name theirs.
send_message(task) == Operate("send_message", "POST", task)
send_streaming_message(task) == Operate("send_streaming_message", "POST", task)
subscribe_to_task(task) == task # NoA2aTask /\ Operate("subscribe_to_task", "GET", task)
client_get_task(task) == task # NoA2aTask /\ Operate("get_task", "GET", task)
client_cancel_task(task) == task # NoA2aTask /\ Operate("cancel_task", "POST", task)
list_tasks == Operate("list_tasks", "GET", NoA2aTask)
get_extended_card == Operate("get_extended_card", "GET", NoA2aTask)

\* The operation ends with `out`, about the task `about`.
Conclude(out, about) ==
    /\ asked' = [asked EXCEPT !.out = Reported(out), !.about = about]
    /\ peer' = IF asked.op = "get_extended_card" THEN adopt_extended_card(out) ELSE peer
    /\ UNCHANGED <<next_id, arrived, given>>

\* The connection is never made, or the request times out, is cut off, is
\* redirected or answered with too much, before or after the agent acts.
Lost(out, did) ==
    /\ asked.out = "pending"
    /\ out = "Connect" => ~did
    /\ acted' = did
    /\ Conclude(out, NoA2aTask) /\ UNCHANGED event_reader

\* An agent acts on what it answers with a result, and not on what it
\* answers with a 4xx or an A2A error of this request.  Only JSON-RPC has ids.
Conforms(reply, did) ==
    /\ peer.binding = "HttpJson" => reply.id = "ours"
    /\ (reply.status \in {"4xx", "405"} \/ (reply.body = "error" /\ reply.id # "other")) => ~did
    /\ (reply.status = "2xx" /\ reply.body \in {"result", "events"}) => did

\* The task the answer must be about: a result about another is refused.
AboutAsked(reply) == asked.task = NoA2aTask \/ reply.about \in {asked.task, NoA2aTask}

\* call: the reply of an operation that is not a stream.  A message may be
\* answered with a message, which names no task.
Reply_(reply, did) ==
    /\ asked.out = "pending" /\ asked.op \notin StreamOps
    /\ Conforms(reply, did) /\ acted' = did
    /\ asked.op \in AboutTask => reply.about # NoA2aTask
    /\ LET out == decode_reply(reply, asked.op)
       IN IF out = "Ok" /\ ~AboutAsked(reply)
          THEN /\ asked' = [asked EXCEPT !.out = "MismatchedTask", !.about = reply.about]
               /\ UNCHANGED <<peer, next_id, arrived, given>>
          ELSE Conclude(out, IF out = "Ok" THEN reply.about ELSE NoA2aTask)
    /\ UNCHANGED event_reader

\* open_stream: a success that declares itself an event stream is one;
\* any other reply is read whole, for the error it carries.
open_stream(reply, did) ==
    /\ asked.out = "pending" /\ asked.op \in StreamOps
    /\ Conforms(reply, did) /\ acted' = did
    /\ LET opens == Success(reply.status) /\ reply.body = "events"
           read == decode_reply(reply, asked.op)
           out == IF opens THEN "Open" ELSE IF read = "Ok" THEN "NotAStream" ELSE read
           again == asked.op = "subscribe_to_task" /\ out = "Status4" /\ reply.status = "405"
                    /\ peer.binding = "HttpJson" /\ asked.verb = "GET"
       IN /\ IF again THEN asked' = [asked EXCEPT !.verb = "POST"] /\ UNCHANGED <<peer, next_id, arrived, given>>
             ELSE Conclude(out, NoA2aTask)
          /\ event_reader' = IF opens THEN [NoReader EXCEPT !.open = TRUE, !.expected = asked.task] ELSE event_reader

-----------------------------------------------------------------------------
(* The reader of a stream *)

\* StreamResponse as it comes: a task, a status or artifact update or a
\* message of one; an error in place of an event; what does not decode; and
\* an event with no data.
StreamEvents == [kind : {"update"}, task : A2aTasks] \union [kind : {"message"}, task : A2aTasks \union {NoA2aTask}]
          \union [kind : {"error", "junk", "blank"}, task : {NoA2aTask}]

Reading == event_reader.open /\ ~event_reader.finished
MustRead == Reading /\ event_reader.ready = <<>> /\ event_reader.failure = "none" /\ ~event_reader.ended

\* A chunk: the events it completes, which may be followed by one too large.
Chunk(events, large) ==
    /\ MustRead /\ Len(arrived) + Len(events) <= MaxArrivals
    /\ arrived' = arrived \o events
    /\ event_reader' = [event_reader EXCEPT !.ready = @ \o events,
                                !.failure = IF large THEN "EventTooLarge" ELSE "none"]
    /\ UNCHANGED <<peer, next_id, asked, acted, given>>

\* The stream falls idle, or the connection breaks.
StreamBreaks(why) ==
    /\ MustRead
    /\ event_reader' = [event_reader EXCEPT !.failure = why]
    /\ UNCHANGED <<peer, next_id, asked, acted, arrived, given>>

\* The agent closes the stream; an event it never ended is read all the same.
StreamCloses(last) ==
    /\ MustRead /\ Len(arrived) + Len(last) <= MaxArrivals
    /\ arrived' = arrived \o last
    /\ event_reader' = [event_reader EXCEPT !.ended = TRUE, !.ready = @ \o last]
    /\ UNCHANGED <<peer, next_id, asked, acted, given>>

\* Decoder::decode and expect_task: what one event is handed out as.
decode(event, expected) ==
    CASE event.kind = "error" -> "Rpc"
      [] event.kind = "junk"  -> "Decode"
      [] OTHER -> IF event.task # NoA2aTask /\ expected # NoA2aTask /\ event.task # expected
                  THEN "MismatchedTask" ELSE "Ok"

HandOut(item) == given' = Append(given, item)

\* next, for an event that is ready.  The first task an event names is the
\* stream's, when the call named none; the first error is the last item.
NextEvent ==
    /\ Reading /\ event_reader.ready # <<>>
    /\ LET event == Head(event_reader.ready)
           out == decode(event, event_reader.expected)
       IN IF event.kind = "blank"
          THEN event_reader' = [event_reader EXCEPT !.ready = Tail(@)] /\ UNCHANGED given
          ELSE /\ HandOut([out |-> out, task |-> event.task])
               /\ event_reader' = [event_reader EXCEPT !.ready = Tail(@), !.finished = out # "Ok",
                                           !.expected = IF out = "Ok" /\ @ = NoA2aTask THEN event.task ELSE @]
    /\ UNCHANGED <<peer, next_id, asked, acted, arrived>>

\* next, for a failure: handed out once the events before it have been.
NextFailure ==
    /\ Reading /\ event_reader.failure # "none" /\ event_reader.ready = <<>>
    /\ HandOut([out |-> event_reader.failure, task |-> NoA2aTask])
    /\ event_reader' = [event_reader EXCEPT !.failure = "none", !.finished = TRUE]
    /\ UNCHANGED <<peer, next_id, asked, acted, arrived>>

\* next, at the end of the body.
NextEnd ==
    /\ Reading /\ event_reader.ready = <<>> /\ event_reader.failure = "none" /\ event_reader.ended
    /\ event_reader' = [event_reader EXCEPT !.finished = TRUE]
    /\ UNCHANGED <<peer, next_id, asked, acted, arrived, given>>

\* The caller drops the stream, which closes the connection.
DropStream ==
    /\ event_reader.open /\ event_reader' = NoReader /\ arrived' = <<>> /\ given' = <<>>
    /\ UNCHANGED <<peer, next_id, asked, acted>>

CallsNext ==
    \/ \E b \in Bindings, keys, declares \in BOOLEAN : client_connect(b, keys, declares)
    \/ ConnectFails
    \/ \E t \in A2aTasks \union {NoA2aTask} :
          \/ send_message(t) \/ send_streaming_message(t)
          \/ subscribe_to_task(t) \/ client_get_task(t) \/ client_cancel_task(t)
    \/ list_tasks \/ get_extended_card
    \/ \E out \in {"Connect", "Timeout", "Transport", "Redirect", "TooLarge"}, did \in BOOLEAN : Lost(out, did)
    \/ \E reply \in Replies, did \in BOOLEAN : Reply_(reply, did) \/ open_stream(reply, did)
    \/ \E n \in 0 .. 2, large \in BOOLEAN : \E events \in [1 .. n -> StreamEvents] : Chunk(events, large)
    \/ \E why \in {"StreamIdle", "Transport"} : StreamBreaks(why)
    \/ \E n \in 0 .. 1 : \E last \in [1 .. n -> StreamEvents] : StreamCloses(last)
    \/ NextEvent \/ NextFailure \/ NextEnd \/ DropStream

CallsSpec == CallsInit /\ [][CallsNext]_callVars

-----------------------------------------------------------------------------
\* The connection, the operation and the stream take the values they can.
CallsTypeOK ==
    /\ peer.binding \in Bindings /\ peer.card \in {"none", "public", "extended"}
    /\ next_id \in 0 .. MaxA2aCalls /\ acted \in BOOLEAN
    /\ asked.task \in A2aTasks \union {NoA2aTask}
    /\ event_reader.expected \in A2aTasks \union {NoA2aTask}

\* What a send is reported as is true: reported as a failure of its own kind
\* the agent never acted on the message, so sending it again is safe; answered,
\* the agent did, and about the task the message named.  Only an indeterminate
\* failure, and an answer about another task, leave it open
\* (a2a/client.rs, send_failure and send_message_with_metadata).
SendsAreCertain ==
    (asked.op \in Sends /\ asked.out \notin {"pending", "SendIndeterminate", "MismatchedTask"})
        => (acted <=> asked.out \in {"Ok", "Open"})

\* A stream is about one task and complete up to its end: nothing follows an
\* error, every event names the same task, and where the stream ends or breaks
\* all that arrived before has been handed out in order
\* (a2a/client/sse.rs, Reader::next).
StreamsAreWhole ==
    LET spoken == SelectSeq(arrived, LAMBDA e : e.kind # "blank")
        last == given[Len(given)].out
    IN event_reader.open =>
       /\ \A i \in 1 .. Len(given) - 1 : given[i].out = "Ok"
       /\ \A i \in DOMAIN given : given[i].out = "Ok" /\ given[i].task # NoA2aTask
                                  => given[i].task = event_reader.expected
       /\ (asked.task # NoA2aTask) => event_reader.expected = asked.task
       /\ (event_reader.finished /\ (given = <<>> \/ last = "Ok")) => Len(given) = Len(spoken)
       /\ (given # <<>> /\ last \in {"StreamIdle", "Transport", "EventTooLarge"})
             => Len(given) = Len(spoken) + 1
       /\ \A i \in 1 .. Len(given) : i <= Len(spoken) => given[i].task = spoken[i].task

----------------------------------------------------------------------------
(***************************************************************************)
(* The tool a model reaches a remote agent through (a2a/tool.rs): how its  *)
(* input is read, what each outcome of the exchange is told as             *)
(* (a2a/tool/render.rs), and which of the agent's words and files a reply  *)
(* carries (a2a/output.rs).                                                *)
(*                                                                         *)
(* The model follows what replies tell it: it never sends again what it    *)
(* was told not to.  The agent is external; the exchange itself is         *)
(* A2aExchange.  Text is what it is made of: labelled lists of parts.      *)
(***************************************************************************)

CONSTANTS ToolTasks,       \* ids of the agent's tasks
          Contents,        \* what a task says: [status, artifacts]
          NoField,         \* an input field left out
          MaxToolCalls     \* calls of the tool

VARIABLES work,        \* the agent's tasks: their states and what they say
          delivered,   \* times the agent took the instruction
          reply,       \* the last result the model read
          toolCalls

toolVars == <<work, delivered, reply, toolCalls>>

Unfinished == {"working", "input", "auth"}
NotDone == {"failed", "rejected", "canceled"}
TaskStates == Unfinished \union NotDone \union {"completed"}
NoTaskYet == [state |-> "absent", says |-> CHOOSE c \in Contents : TRUE]

\* The fields of the tool's input: left out, blank, or given.
Inputs == [message : {NoField, "blank", "text"}, task_id : {NoField, "blank"} \union ToolTasks,
           context_id : {NoField, "blank", "context"}]

FirstCall == [message |-> "text", task_id |-> NoField, context_id |-> NoField]
NoReply == [ok |-> TRUE, told |-> "none", task |-> NoField, guide |-> "send", shown |-> <<>>, files |-> <<>>]

ToolInit ==
    /\ work = [t \in ToolTasks |-> NoTaskYet]
    /\ delivered = 0 /\ reply = NoReply /\ toolCalls = 0

-----------------------------------------------------------------------------
(* Input *)

\* Call::parse: a blank field is refused; a message is sent, to the task it
\* names; a task alone is resumed, and takes no context.
parse(input) ==
    IF "blank" \in {input.message, input.task_id, input.context_id} THEN "invalid"
    ELSE IF input.message # NoField THEN "Send"
    ELSE IF input.task_id # NoField /\ input.context_id = NoField THEN "Resume"
    ELSE "invalid"

\* The call the last reply's guidance describes.
Guided(r) ==
    CASE r.guide = "send"      -> FirstCall
      [] r.guide = "answer"    -> [FirstCall EXCEPT !.task_id = r.task]
      [] r.guide = "resume"    -> [message |-> NoField, task_id |-> r.task, context_id |-> NoField]
      [] OTHER                 -> [message |-> NoField, task_id |-> NoField, context_id |-> NoField]

-----------------------------------------------------------------------------
(* Output *)

\* shown_status: a completed task's answer is its artifacts.
shown_status(task) ==
    IF task.state = "completed" /\ task.says.artifacts # <<>> THEN <<>> ELSE task.says.status

\* task_text: the status message, when it says something, then the artifacts.
task_text(task) ==
    LET status == shown_status(task)
    IN (IF status = <<>> THEN <<>> ELSE <<status>>) \o task.says.artifacts

is_file(part) == part \in {"raw", "url"}

\* remote_files: the files among what is shown.
remote_files(task) == SelectSeq(shown_status(task) \o FlattenSeq(task.says.artifacts), is_file)

-----------------------------------------------------------------------------
(* Results *)

\* settled, and finished: an error for the states that mean the work was not
\* done, and guidance for those that wait for the caller.
settled(t, task) ==
    [ok |-> task.state \notin NotDone, told |-> task.state, task |-> t,
     guide |-> CASE task.state = "input" -> "answer" [] task.state = "auth" -> "resume" [] OTHER -> "none",
     shown |-> task_text(task), files |-> remote_files(task)]

still_working(t, task) ==
    [ok |-> TRUE, told |-> "working", task |-> t, guide |-> "resume",
     shown |-> task_text(task), files |-> remote_files(task)]

poll_failed(t) ==
    [ok |-> FALSE, told |-> "pollFailed", task |-> t, guide |-> "resume", shown |-> <<>>, files |-> <<>>]

abandoned(t) ==
    [ok |-> FALSE, told |-> "abandoned", task |-> t, guide |-> "none", shown |-> <<>>, files |-> <<>>]

\* A reply with no task behind it, input that is refused, and a request that
\* failed: `again` when nothing was taken, so that it may be sent again.
PlainReply(ok, how, again) ==
    [NoReply EXCEPT !.ok = ok, !.told = how, !.guide = IF again THEN "send" ELSE "none"]

-----------------------------------------------------------------------------
(* One call of the tool *)

Made == toolCalls < MaxToolCalls /\ toolCalls' = toolCalls + 1

\* Reading an input that names nothing to do.
Refuse(input) ==
    /\ Made /\ reply.told = "none" /\ parse(input) = "invalid"
    /\ reply' = [PlainReply(FALSE, "invalid", TRUE) EXCEPT !.told = "none"]
    /\ UNCHANGED <<work, delivered>>

\* The task an exchange waits on: the one named, or a new one.
Waits(input, t) == IF input.task_id = NoField THEN work[t].state = "absent" ELSE t = input.task_id

\* What the exchange comes back with, for a task that now stands as `task`.
Outcome(t, task) ==
    \/ task.state # "working" /\ reply' = settled(t, task)
    \/ task.state = "working" /\ reply' \in {still_working(t, task), abandoned(t)}
    \/ reply' = poll_failed(t)

\* A message is taken: it starts a task, or answers the one it names.
SendMessage(t, task) ==
    LET input == Guided(reply)
    IN /\ Made /\ parse(input) = "Send" /\ Waits(input, t)
       /\ work' = [work EXCEPT ![t] = task]
       /\ delivered' = IF reply.guide = "answer" THEN delivered ELSE delivered + 1
       /\ Outcome(t, task)

\* A message is answered with a message, taken but not answered, or refused.
SendEnds(how) ==
    /\ Made /\ parse(Guided(reply)) = "Send"
    /\ delivered' = IF how = "refused" \/ reply.guide = "answer" THEN delivered ELSE delivered + 1
    /\ reply' = PlainReply(how = "reply", how, how = "refused" /\ reply.guide = "send")
    /\ UNCHANGED work

\* A task is waited on again: nothing is sent.
Resume(t, task) ==
    LET input == Guided(reply)
    IN /\ Made /\ parse(input) = "Resume" /\ t = input.task_id
       /\ \/ work[t].state \in Unfinished \ {"input"} /\ work' = [work EXCEPT ![t] = task]
          \/ task = work[t] /\ UNCHANGED work
       /\ Outcome(t, task)
       /\ UNCHANGED delivered

ToolNext ==
    \/ \E input \in Inputs : Refuse(input)
    \/ \E t \in ToolTasks, state \in TaskStates, says \in Contents :
          LET task == [state |-> state, says |-> says]
          IN SendMessage(t, task) \/ Resume(t, task)
    \/ \E how \in {"reply", "unanswered", "refused"} : SendEnds(how)

ToolSpec == ToolInit /\ [][ToolNext]_toolVars

-----------------------------------------------------------------------------
\* The agent's tasks, and the reply read last, take the values they can.
ToolTypeOK ==
    /\ work \in [ToolTasks -> [state : TaskStates \union {"absent"}, says : Contents]]
    /\ delivered \in 0 .. MaxToolCalls /\ toolCalls \in 0 .. MaxToolCalls
    /\ reply.guide \in {"send", "answer", "resume", "none"}

\* Following the replies, an instruction is handed over once however often
\* its task is waited on or answered, and no more than one task is started
\* for it (a2a/tool.rs, Call::parse; a2a/tool/render.rs).
HandedOverOnce ==
    /\ delivered <= 1
    /\ Cardinality({t \in ToolTasks : work[t].state # "absent"}) <= 1

\* A task the agent still works on or waits with is named by the reply, with
\* the call that goes on with it, unless the run abandoned it, or the reply to
\* an answer was itself lost; and a reply's files are those among what it shows
\* (a2a/output.rs, remote_files).
RepliesLeadOn ==
    /\ \A t \in ToolTasks :
          (work[t].state \in Unfinished /\ reply.told \notin {"abandoned", "reply", "unanswered", "refused"})
              => reply.task = t /\ reply.guide \in {"answer", "resume"} /\ parse(Guided(reply)) # "invalid"
    /\ reply.files = SelectSeq(FlattenSeq(reply.shown), is_file)
=============================================================================
