---------------------------- MODULE Connections -----------------------------
(***************************************************************************)
(* How requests reach the provider: the ring of gateways, and the sessions *)
(* of the Responses API over HTTP and websockets.                          *)
(***************************************************************************)
EXTENDS Naturals, FiniteSets, Sequences, SequencesExt

(***************************************************************************)
(* A ring of interchangeable gateways behind one provider.  Concurrent     *)
(* calls share RingHealth, which each of them reads and replaces under a   *)
(* mutex when it selects a member and when that member's answer is known;  *)
(* between the two the ring may have moved.                                *)
(***************************************************************************)

CONSTANTS Callers,     \* concurrent calls
          Size,        \* members; 0 is the preferred one
          Threshold,   \* GatewayRingPolicy::failure_threshold, 0 read as 1
          Cooldown,    \* GatewayRingPolicy::cooldown in ticks, Never for a sticky ring
          MaxTime      \* bound: ticks

VARIABLES current, members,   \* RingHealth
          caller,             \* what each call is doing
          now,
          unproven            \* the members left since they last answered

ringVars == <<current, members, caller, now, unproven>>

Member == 0..(Size - 1)
Never == MaxTime + 1
NotLeft == MaxTime + 1
threshold == IF Threshold = 0 THEN 1 ELSE Threshold

Healthy == [streak |-> 0, probation |-> FALSE, left_at |-> NotLeft]
IdleCall == [pc |-> "idle", index |-> 0, attempts |-> 0, probation |-> FALSE]

RingInit ==
    /\ current = 0
    /\ members = [i \in Member |-> Healthy]
    /\ caller = [c \in Callers |-> IdleCall]
    /\ now = 0
    /\ unproven = {}

-----------------------------------------------------------------------------
(* What an answer says about the member. *)

Unanswered == {"Transport", "Decode", "Deserialize", "Retryable", "InvalidResponse", "MalformedStream", "Http5xx", "Http429", "Http408"}
RequestsOwnFault == {"ContextLengthExceeded", "Serialize", "InvalidRequest", "UnsupportedCapability"}
ProviderErrors == Unanswered \union RequestsOwnFault \union {"Http4xx"}

classify(error) ==
    CASE error \in Unanswered -> "Counted"
      [] error \in RequestsOwnFault -> "NotTheMembersFault"
      [] OTHER -> "Immediate"

\* A stream is judged by its first event; one that closes without any counts
\* as answered, and silence past the limit is a failure of its own.
FirstEvents == {"event", "closed", "silence"} \union ProviderErrors
first_event(seen) ==
    CASE seen \in {"event", "closed"} -> "Ok"
      [] seen = "silence" -> "Immediate"
      [] OTHER -> classify(seen)

-----------------------------------------------------------------------------
(* RingHealth *)

rested_for(health) ==
    /\ health.left_at # NotLeft /\ Cooldown # Never
    /\ now >= health.left_at + Cooldown

returned_to(health) == [streak |-> 0, probation |-> health.left_at # NotLeft, left_at |-> NotLeft]
left(health) == [streak |-> 0, probation |-> FALSE, left_at |-> now]

with_current(all, index) == [all EXCEPT ![index] = returned_to(@)]

\* The first more preferred member that has rested, else the current one.
Rested == {i \in Member : i < current /\ rested_for(members[i])}
select == IF Rested = {} THEN current ELSE CHOOSE i \in Rested : \A j \in Rested : i <= j

\* The next member that was not left or has rested; the next one if there is none.
next_after(index) ==
    LET at(step) == (index + step) % Size
        fit == {step \in 1..(Size - 1) :
                  Cooldown = Never \/ members[at(step)].left_at = NotLeft \/ rested_for(members[at(step)])}
    IN  IF Size = 1 THEN index
        ELSE IF fit = {} THEN at(1) ELSE at(CHOOSE s \in fit : \A o \in fit : s <= o)

Rotates(index, kind) ==
    kind = "Immediate" \/ members[index].probation \/ members[index].streak + 1 >= threshold

-----------------------------------------------------------------------------
(* with_rotation *)

Start(c) ==
    /\ caller[c].pc = "idle"
    /\ LET returned == Rested # {}
           all == IF returned THEN with_current(members, select) ELSE members
       IN  /\ current' = select
           /\ members' = all
           /\ caller' = [caller EXCEPT ![c] = [pc |-> "asking", index |-> select, attempts |-> 1,
                                               probation |-> all[select].probation]]
    /\ UNCHANGED <<now, unproven>>

Succeeds(c, seen) ==
    /\ caller[c].pc = "asking" /\ first_event(seen) = "Ok"
    /\ members' = [members EXCEPT ![caller[c].index] = Healthy]
    /\ caller' = [caller EXCEPT ![c] = IdleCall]
    /\ unproven' = unproven \ {caller[c].index}
    /\ UNCHANGED <<current, now>>

\* A failure that is not the member's changes nothing.
Refused(c, seen) ==
    /\ caller[c].pc = "asking" /\ first_event(seen) = "NotTheMembersFault"
    /\ caller' = [caller EXCEPT ![c] = IdleCall]
    /\ UNCHANGED <<current, members, now, unproven>>

\* A late failure of a member the ring has left changes nothing either; a
\* failure that does not rotate the ring is the call's error.
Fails(c, seen) ==
    LET index == caller[c].index
        kind == first_event(seen)
    IN
    /\ caller[c].pc = "asking" /\ kind \in {"Counted", "Immediate"}
    /\ index # current \/ ~Rotates(index, kind)
    /\ caller' = [caller EXCEPT ![c] = IdleCall]
    /\ members' = IF index # current THEN members ELSE [members EXCEPT ![index].streak = @ + 1]
    /\ UNCHANGED <<current, now, unproven>>

\* The ring leaves the member and the call goes on, at most once around.
Rotate(c, seen) ==
    LET index == caller[c].index
        kind == first_event(seen)
        next == next_after(index)
        all == with_current([members EXCEPT ![index] = left(@)], next)
    IN
    /\ caller[c].pc = "asking" /\ kind \in {"Counted", "Immediate"}
    /\ index = current /\ Rotates(index, kind)
    /\ current' = next
    /\ members' = all
    /\ unproven' = unproven \union {index}
    /\ caller' = [caller EXCEPT ![c] =
           IF caller[c].attempts >= Size THEN IdleCall
           ELSE [@ EXCEPT !.index = next, !.attempts = @ + 1, !.probation = all[next].probation]]
    /\ UNCHANGED now

Tick == now < MaxTime /\ now' = now + 1 /\ UNCHANGED <<current, members, caller, unproven>>

RingNext ==
    \/ \E c \in Callers :
        \/ Start(c)
        \/ \E seen \in FirstEvents : Succeeds(c, seen) \/ Refused(c, seen) \/ Fails(c, seen) \/ Rotate(c, seen)
    \/ Tick

-----------------------------------------------------------------------------
\* Only the member the ring is on can be resting from nothing, and no member
\* has failed as often as the policy allows without the ring having left it:
\* late answers of calls that started before a rotation never count twice
\* (RingHealth::failed).
OutageCountsOnce ==
    /\ members[current].left_at = NotLeft
    /\ \A i \in Member : members[i].streak < threshold /\ (members[i].left_at # NotLeft => members[i].streak = 0)

\* "With a cooldown, the ring drifts back to a more preferred member once that
\* member has rested that long": a member the ring is past is one whose rest
\* is being timed.
DriftsBack ==
    Cooldown # Never => \A i \in Member : i < current => members[i].left_at # NotLeft

\* "A member that was left is on probation when the ring comes back to it";
\* only an answer clears the probation.
LeftIsOnProbation == current \in unproven => members[current].probation

----------------------------------------------------------------------------
(***************************************************************************)
(* Sessions of the Responses provider (responses/session.rs,               *)
(* responses/websocket.rs).  A conversation remembers the last response it *)
(* started and chains its next request from it; conversations share one    *)
(* cached websocket, which carries one response at a time.                 *)
(*                                                                         *)
(* A request is numbered when it begins and a response has its request's   *)
(* number as id; 0 is "no id".  The endpoint is external: it answers the   *)
(* requests of a socket in order, may refuse the id a request chains from, *)
(* may fail, and may close a socket at any time.                           *)
(***************************************************************************)

CONSTANTS Conversations,
          MaxRequests,   \* requests begun
          MaxDials,      \* websockets dialed
          ModeOf,        \* state_mode of each conversation's requests
          TransportsOf,  \* the transports they use
          HybridHttp     \* hybrid_http_previous_response_id of the definition

VARIABLES req,      \* [1..MaxRequests -> a request and its stream]
          begun,    \* number of requests begun
          latest,   \* latest_response_id of each conversation
          marked,   \* http_previous_response_id_unsupported_models (one model)
          conns,    \* sequence of the websockets dialed
          cached,   \* WebsocketSession.connection: its number, or 0
          refused,  \* history: refused[c], ids whose refusal c's state has seen
          seen      \* history: what callers were shown that they should not be

responsesVars == <<req, begun, latest, marked, conns, cached, refused, seen>>

Requests == 1..MaxRequests

NewRequest == [pc |-> "new", conv |-> CHOOSE c \in Conversations : TRUE,
               prev |-> 0, handle |-> 0, receiver |-> "live", started |-> FALSE]

NewConn == [open |-> TRUE, dead |-> FALSE, holder |-> 0, queue |-> <<>>, pending |-> <<>>,
            said |-> 0, abandoned |-> FALSE]

ResponsesInit ==
    /\ req = [r \in Requests |-> NewRequest]
    /\ begun = 0
    /\ latest = [c \in Conversations |-> 0]
    /\ marked = FALSE
    /\ conns = <<>>
    /\ cached = 0
    /\ refused = [c \in Conversations |-> {}]
    /\ seen = {}

(***************************************************************************)
(* ResponsesSessionState                                                   *)
(***************************************************************************)
set_latest_response_id(c, id) == latest' = [latest EXCEPT ![c] = id]

forget_rejected_response_id(c, id) ==
    /\ latest' = [latest EXCEPT ![c] = IF @ = id THEN 0 ELSE @]
    /\ refused' = [refused EXCEPT ![c] = @ \cup {id}]

\* A request is over; what is left of it is its conversation.
Over(r) == [NewRequest EXCEPT !.pc = "done", !.conv = req[r].conv]
Finish(r) == req' = [req EXCEPT ![r] = Over(r)]
Hybrid(r) == ModeOf[req[r].conv] = "Hybrid"

(***************************************************************************)
(* stream_response: chooses the id to chain from.                          *)
(***************************************************************************)
Chains(c, transport) ==
    ~(ModeOf[c] = "Hybrid" /\ transport = "HttpSse" /\ (~HybridHttp \/ marked))

stream_response(c, transport) ==
    /\ begun < MaxRequests
    /\ begun' = begun + 1
    /\ LET prev == IF Chains(c, transport) THEN latest[c] ELSE 0
       IN req' = [req EXCEPT ![begun + 1] =
                    [NewRequest EXCEPT !.conv = c, !.prev = prev,
                                       !.pc = IF transport = "HttpSse" THEN "http" ELSE "check"]]
    /\ UNCHANGED <<latest, marked, conns, cached, refused, seen>>

(***************************************************************************)
(* HTTP: a response has a body of its own.                                 *)
(***************************************************************************)
\* The status line is a success: the stream is tracked.
HttpAccepted(r) ==
    /\ req[r].pc \in {"http", "http_again"}
    /\ req' = [req EXCEPT ![r].pc = "streaming"]
    /\ UNCHANGED <<begun, latest, marked, conns, cached, refused, seen>>

HttpFails(r) ==
    /\ req[r].pc \in {"http", "http_again"}
    /\ Finish(r)
    /\ UNCHANGED <<begun, latest, marked, conns, cached, refused, seen>>

\* previous_response_state_rejection: the endpoint does not know the id, or
\* does not take the parameter.
HttpRefuses(r, rejection) ==
    /\ req[r].pc = "http" /\ req[r].prev # 0
    /\ forget_rejected_response_id(req[r].conv, req[r].prev)
    /\ IF ~Hybrid(r)
       THEN Finish(r) /\ UNCHANGED marked
       ELSE /\ marked' = (marked \/ rejection = "ParameterUnsupported")
            /\ req' = [req EXCEPT ![r].pc = "http_again", ![r].prev = 0]
    /\ UNCHANGED <<begun, conns, cached, seen>>

\* track_response_state on MessageStarted; a caller that went away takes one
\* more event with it.
HttpStarts(r) ==
    /\ req[r].pc = "streaming"
    /\ set_latest_response_id(req[r].conv, r)
    /\ IF req[r].receiver = "live" THEN req' = [req EXCEPT ![r].pc = "started"] ELSE Finish(r)
    /\ UNCHANGED <<begun, marked, conns, cached, refused, seen>>

\* The stream completes, breaks off, or fails.
HttpEnds(r) ==
    /\ req[r].pc \in {"streaming", "started"}
    /\ Finish(r)
    /\ UNCHANGED <<begun, latest, marked, conns, cached, refused, seen>>

(***************************************************************************)
(* Websocket.  conns[g].open: the connection still has its stream;         *)
(* conns[g].dead: the pump has finished; conns[g].holder: the request      *)
(* whose reader holds the stream's lock.                                   *)
(***************************************************************************)
Free(g) == conns[g].holder = 0

\* The stream is taken out of the connection and dropped.
Taken(g) == [conns EXCEPT ![g] = [NewConn EXCEPT !.open = FALSE, !.abandoned = conns[g].abandoned]]

\* websocket_connection_is_closed / is_closed: waits for the lock and drops a
\* stream whose pump has finished.
websocket_connection_is_closed(r) ==
    /\ req[r].pc = "check"
    /\ IF cached = 0 THEN TRUE ELSE Free(cached)
    /\ LET closed == IF cached = 0 THEN TRUE ELSE conns[cached].dead \/ ~conns[cached].open
       IN /\ req' = [req EXCEPT ![r].pc = IF closed THEN "dial" ELSE "take"]
          /\ conns' = IF cached # 0 /\ closed THEN Taken(cached) ELSE conns
    /\ UNCHANGED <<begun, latest, marked, cached, refused, seen>>

\* ResponsesWebsocketConnection::connect and store_connection.
connect(r) ==
    /\ req[r].pc = "dial" /\ Len(conns) < MaxDials
    /\ conns' = Append(conns, NewConn)
    /\ cached' = Len(conns) + 1
    /\ req' = [req EXCEPT ![r].pc = "take"]
    /\ UNCHANGED <<begun, latest, marked, refused, seen>>

ConnectFails(r) ==
    /\ req[r].pc = "dial"
    /\ Finish(r)
    /\ UNCHANGED <<begun, latest, marked, conns, cached, refused, seen>>

\* stream_websocket_request_with_provenance reads the connection cached now.
TakeConnection(r) ==
    /\ req[r].pc = "take"
    /\ IF cached = 0 THEN Finish(r)
       ELSE req' = [req EXCEPT ![r].pc = "lock", ![r].handle = cached]
    /\ UNCHANGED <<begun, latest, marked, conns, cached, refused, seen>>

\* stream_request_with_provenance: takes the lock and sends the frame.
SendFrame(r) ==
    /\ req[r].pc = "lock" /\ Free(req[r].handle)
    /\ LET g == req[r].handle IN
       IF conns[g].open /\ ~conns[g].dead
       THEN /\ conns' = [conns EXCEPT ![g].holder = r, ![g].pending = Append(@, [r |-> r, prev |-> req[r].prev])]
            /\ req' = [req EXCEPT ![r].pc = "reading"]
       ELSE /\ conns' = Taken(g)
            /\ Finish(r)
    /\ UNCHANGED <<begun, latest, marked, cached, refused, seen>>

\* clear_websocket_connection
clear_websocket_connection ==
    /\ cached # 0
    /\ cached' = 0
    /\ UNCHANGED <<req, begun, latest, marked, conns, refused, seen>>

(***************************************************************************)
(* The endpoint's side of a socket, and the pump's queue.                  *)
(***************************************************************************)
EndpointSays(g, what) ==
    /\ conns[g].open /\ ~conns[g].dead /\ conns[g].pending # <<>>
    /\ LET asked == Head(conns[g].pending) IN
       /\ \/ what = "created" /\ conns[g].said = 0
          \/ what = "delta" /\ conns[g].said = 1
          \/ what = "completed" /\ conns[g].said > 0
          \/ what = "refused" /\ conns[g].said = 0 /\ asked.prev # 0
          \/ what = "failed"
       /\ conns' = [conns EXCEPT ![g].queue = Append(@, [of |-> asked.r, m |-> what]),
                                 ![g].said = IF what \in {"created", "delta"} THEN @ + 1 ELSE 0,
                                 ![g].pending = IF what \in {"created", "delta"} THEN @ ELSE Tail(@)]
    /\ UNCHANGED <<req, begun, latest, marked, cached, refused, seen>>

EndpointCloses(g) ==
    /\ conns[g].open /\ ~conns[g].dead
    /\ conns' = [conns EXCEPT ![g].dead = TRUE]
    /\ UNCHANGED <<req, begun, latest, marked, cached, refused, seen>>

(***************************************************************************)
(* The reader of request r: read_websocket_response_stream, the stream's   *)
(* first item awaited by Hybrid (websocket_response_start), and the        *)
(* tracker (track_response_state).                                         *)
(***************************************************************************)
\* Hybrid waits for the first item before the stream is returned.
AwaitsStart(r) == Hybrid(r) /\ req[r].prev # 0 /\ ~req[r].started

\* The reader leaves: on success the stream stays for the next request, on an
\* error it is taken out of the connection.
Left(g) == [conns EXCEPT ![g].holder = 0, ![g].queue = Tail(@)]

\* An event of another request, as the caller of r sees it.
Foreign(r, msg) == IF msg.of # r THEN {"foreign"} ELSE {}

\* MessageStarted, MessageStopped and everything else the caller is given.
ReadEvent(r) ==
    LET g == req[r].handle IN
    /\ req[r].pc = "reading" /\ conns[g].queue # <<>> /\ req[r].receiver # "gone"
    /\ LET msg == Head(conns[g].queue) IN
       /\ msg.m \in {"created", "delta", "completed"}
       /\ IF msg.m = "created" THEN set_latest_response_id(req[r].conv, msg.of) ELSE UNCHANGED latest
       /\ IF msg.m = "completed" THEN Finish(r)
          ELSE req' = [req EXCEPT ![r].started = TRUE,
                                  ![r].receiver = IF @ = "leaving" THEN "gone" ELSE @]
       /\ seen' = seen \cup Foreign(r, msg)
       /\ conns' = IF msg.m = "completed" THEN Left(g) ELSE [conns EXCEPT ![g].queue = Tail(@)]
    /\ UNCHANGED <<begun, marked, cached, refused>>

\* The receiver is gone: the reader returns Ok and leaves the rest unread.
ReaderStops(r) ==
    LET g == req[r].handle IN
    /\ req[r].pc = "reading" /\ conns[g].queue # <<>> /\ req[r].receiver = "gone"
    /\ Head(conns[g].queue).m \in {"created", "delta", "completed"}
    /\ conns' = [Left(g) EXCEPT ![g].abandoned = TRUE]
    /\ Finish(r)
    /\ UNCHANGED <<begun, latest, marked, cached, refused, seen>>

\* The wrapped error frame: the socket is dropped.  A refusal before anything
\* else makes Hybrid forget the id and send again; otherwise the tracker
\* forgets it on its way past.
ReadRefusal(r) ==
    LET g == req[r].handle IN
    /\ req[r].pc = "reading" /\ conns[g].queue # <<>>
    /\ Head(conns[g].queue).m = "refused"
    /\ conns' = Taken(g)
    /\ IF AwaitsStart(r) /\ req[r].receiver = "live"
       THEN /\ forget_rejected_response_id(req[r].conv, req[r].prev)
            /\ req' = [req EXCEPT ![r].pc = "check", ![r].prev = 0]
       ELSE /\ IF req[r].prev # 0 /\ req[r].receiver # "gone"
               THEN forget_rejected_response_id(req[r].conv, req[r].prev) ELSE UNCHANGED <<latest, refused>>
            /\ Finish(r)
    /\ seen' = seen \cup Foreign(r, Head(conns[g].queue))
                    \cup IF Hybrid(r) /\ ~AwaitsStart(r) /\ req[r].receiver = "live" THEN {"refusal"} ELSE {}
    /\ UNCHANGED <<begun, marked, cached>>

\* Any other error frame, a socket that closes, the idle timeout.
ReadFails(r) ==
    LET g == req[r].handle IN
    /\ req[r].pc = "reading"
    /\ IF conns[g].queue = <<>> THEN TRUE ELSE Head(conns[g].queue).m = "failed"
    /\ conns' = Taken(g)
    /\ Finish(r)
    /\ UNCHANGED <<begun, latest, marked, cached, refused, seen>>

\* The caller drops the stream, or the future that is to return it.
DropStream(r) ==
    /\ req[r].pc \in {"streaming", "started", "reading"} /\ req[r].receiver = "live"
    /\ IF req[r].pc = "started" THEN Finish(r)
       ELSE req' = [req EXCEPT ![r].receiver = IF req[r].pc = "reading" /\ AwaitsStart(r)
                                               THEN "gone" ELSE "leaving"]
    /\ UNCHANGED <<begun, latest, marked, conns, cached, refused, seen>>

ResponsesNext ==
    \/ \E c \in Conversations : \E transport \in TransportsOf[c] : stream_response(c, transport)
    \/ \E r \in Requests :
         \/ HttpAccepted(r) \/ HttpFails(r) \/ HttpStarts(r)
         \/ \E rejection \in {"ReferenceUnavailable", "ParameterUnsupported"} : HttpRefuses(r, rejection)
         \/ HttpEnds(r)
         \/ websocket_connection_is_closed(r) \/ connect(r) \/ ConnectFails(r)
         \/ TakeConnection(r) \/ SendFrame(r)
         \/ ReadEvent(r) \/ ReaderStops(r) \/ ReadRefusal(r) \/ ReadFails(r)
         \/ DropStream(r)
    \/ clear_websocket_connection
    \/ \E g \in DOMAIN conns :
         \/ \E what \in {"created", "delta", "completed", "refused", "failed"} : EndpointSays(g, what)
         \/ EndpointCloses(g)

-----------------------------------------------------------------------------
Walked(g) == conns[g].abandoned

\* A socket some request's events were read from after a caller walked away.
Tainted == \E g \in DOMAIN conns : Walked(g)

(***************************************************************************)
(* "Sends `request_body` and returns the stream of its response"           *)
(* (websocket.rs:271): what a request's stream carries is its own          *)
(* response.                                                               *)
(***************************************************************************)
StreamsDoNotMix == "foreign" \notin seen

(***************************************************************************)
(* Streams mix only on a socket that a caller walked away from in the      *)
(* middle of a response: redials, resends after a refusal, requests that   *)
(* wait for the lock and sockets that die never give a request an event of *)
(* another, and a conversation's chain then only holds its own responses.  *)
(***************************************************************************)
StreamsMixOnlyOnceAbandoned ==
    ~Tainted => /\ StreamsDoNotMix
                /\ \A c \in Conversations : latest[c] # 0 => req[latest[c]].conv = c

(***************************************************************************)
(* "Dead for every later request" (session.rs:613): once a conversation    *)
(* has seen the endpoint refuse an id, no request of it begun afterwards   *)
(* chains from that id, over either transport, and an id that replaced it  *)
(* in between is kept; Hybrid never shows its caller the refusal of the id *)
(* it chained from by itself.                                              *)
(***************************************************************************)
RefusedIsForgotten ==
    ~Tainted => /\ \A c \in Conversations : latest[c] \notin refused[c]
                /\ "refusal" \notin seen
=============================================================================
