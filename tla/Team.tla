-------------------------------- MODULE Team --------------------------------
(***************************************************************************)
(* Persistent teammates: the team manager (mentra/src/team/manager.rs), the *)
(* actor that runs a teammate (team/actor.rs, team/host.rs), how an agent  *)
(* spawns one and how Runtime::resume revives them (agent/team.rs,         *)
(* runtime.rs), over the store's inbox, and the background notifications   *)
(* that also wake an actor (Background).                                   *)
(*                                                                         *)
(* Every operation of the manager holds one lock, so it is one step here;  *)
(* what a caller does after unlocking (sending the wake it cloned, dropping *)
(* the handle of a refused actor) is a step of its own.                    *)
(***************************************************************************)
EXTENDS Background

CONSTANTS
  Lead, Mates,   \* names: the agent that leads, and the teammates'
  Settings,      \* the configurations to consider, as sets of switches
  MaxLetters,    \* inbox rows over the whole behaviour
  MaxRequests,   \* protocol requests over the whole behaviour
  MaxTroubles    \* failed runs, failed store writes and deaths of the process

ASSUME TeamAssumption ==
  /\ Lead \notin Mates
  /\ Settings \subseteq SUBSET {"autonomy", "background"}
  /\ {MaxLetters, MaxRequests, MaxTroubles} \subseteq Nat

Names == Mates \cup {Lead}

VARIABLES
  inbox,       \* team_inbox, in order; rang: the actor that got a wake for it
  records,     \* agents table: the name of each teammate record, oldest first
  members,     \* status of each member; "none" when the name is no member
  unread,      \* unread_counts
  registered,  \* names whose observer this process has registered
  actors,      \* name -> agent id of the actor whose handle is held, 0 if none
  requests,    \* shutdown requests: status in memory and in the store
  shutdowns,   \* pending_shutdowns
  act,         \* the actors' tasks, by agent id
  spawn,       \* the spawn_teammate or revive_teammate_actor in progress
  phase,       \* the process: up, down, resuming, or resume returned an error
  cursor,      \* the record resume is at
  faults, crashes,
  settings,    \* which of autonomy and background commands are switched on
  evicted      \* history: a live actor lost its handle to another's exit

storeVars == <<inbox, records>>
teamVars  == <<members, unread, registered, actors, requests, shutdowns>>
hostVars  == <<spawn, phase, cursor>>
tally     == <<faults, crashes, evicted, settings>>
vars == <<storeVars, teamVars, act, hostVars, tally, bgVars>>

(* Where an actor's task stands.  An abort drops it only where it is       *)
(* suspended: before its first poll, waiting for a wake, inside a turn.    *)
Suspended == {"start", "wait", "turn"}
PC == Suspended \cup {"absent", "entry", "look", "prompt", "leave", "gone"}

(* wakes: in the channel; due: senders cloned but not used yet; worked:    *)
(* processed_prompt; letters, notes: what the present run has read.        *)
Task == [pc : PC, wakes : Nat, due : Nat, cancelled : BOOLEAN, aborted : BOOLEAN,
         worked : BOOLEAN, letters : SUBSET (1..MaxLetters), notes : SUBSET Jobs]

NoTask == [pc |-> "absent", wakes |-> 0, due |-> 0, cancelled |-> FALSE, aborted |-> FALSE,
           worked |-> FALSE, letters |-> {}, notes |-> {}]

Idle == [agent |-> 0, stage |-> "none"]
Verdicts == {"pending", "approved", "rejected"}

(* The variables have their types. *)
TypeOK ==
  /\ BackgroundTypeOK
  /\ inbox \in Seq([to : Names, state : NoteStates, kind : {"message", "request", "response"},
                    rang : 0..MaxAgents])
  /\ records \in Seq(Mates) /\ Len(records) <= MaxAgents
  /\ members \in [Mates -> {"none", "idle", "working", "failed", "shutdown"}]
  /\ unread \in [Names -> 0..MaxLetters]
  /\ registered \subseteq Names /\ shutdowns \subseteq Mates
  /\ actors \in [Mates -> 0..MaxAgents]
  /\ requests \in Seq([to : Mates, status : Verdicts, stored : Verdicts])
  /\ act \in [AgentIds -> Task]
  /\ spawn \in [agent : 0..MaxAgents, stage : {"none", "register", "wake", "cancel", "abort"}]
  /\ phase \in {"up", "down", "resuming", "refused"}
  /\ cursor \in 0..MaxAgents + 1 /\ evicted \in BOOLEAN
  /\ settings \in Settings /\ faults \in 0..MaxTroubles /\ crashes \in 0..MaxTroubles

Init ==
  /\ BackgroundInit
  /\ inbox = <<>> /\ records = <<>> /\ requests = <<>>
  /\ members = [m \in Mates |-> "none"]
  /\ unread = [n \in Names |-> 0]
  /\ registered = {Lead} /\ shutdowns = {}
  /\ actors = [m \in Mates |-> 0]
  /\ act = [a \in AgentIds |-> NoTask]
  /\ spawn = Idle /\ phase = "up" /\ cursor = 0
  /\ faults = 0 /\ crashes = 0 /\ evicted = FALSE /\ settings \in Settings

---------------------------------------------------------------------------
(* The inbox table. *)

Rows(name, state) == {k \in DOMAIN inbox : inbox[k].to = name /\ inbox[k].state = state}

unread_team_count(name) == Cardinality(Rows(name, "pending"))

MoveRows(name, from, to) ==
  [k \in DOMAIN inbox |->
     IF inbox[k].to = name /\ inbox[k].state = from
     THEN [inbox[k] EXCEPT !.state = to] ELSE inbox[k]]

read_team_inbox(name)    == MoveRows(name, "pending", "inflight")
ack_team_inbox(name)     == MoveRows(name, "inflight", "acked")
requeue_team_inbox(name) == MoveRows(name, "inflight", "pending")

ActorOf(name) == IF name \in Mates THEN actors[name] ELSE 0

MoreTrouble == faults + crashes < MaxTroubles

Known(name) == name \in registered \/ members[name] # "none"

(* append_team_message and increment_unread_count, for each recipient *)
Post(recipients, kind) ==
  /\ Len(inbox) + Cardinality(recipients) <= MaxLetters
  /\ inbox' = inbox \o SetToSeq({[to |-> n, state |-> "pending", kind |-> kind,
                                  rang |-> ActorOf(n)] : n \in recipients})
  /\ unread' = [n \in Names |-> IF n \in recipients THEN unread[n] + 1 ELSE unread[n]]

(* The wake senders cloned under the lock, of recipients that have an actor. *)
WithWakesDue(recipients) ==
  [a \in AgentIds |->
     IF \E n \in recipients : ActorOf(n) = a
     THEN [act[a] EXCEPT !.due = @ + 1] ELSE act[a]]

(* A cloned sender is used after the lock is released, and its error (the  *)
(* task has ended) is ignored.                                             *)
SendWake(a) ==
  /\ act[a].due > 0
  /\ act' = [act EXCEPT ![a].due = @ - 1,
                        ![a].wakes = IF act[a].pc \in {"absent", "gone"} THEN @ ELSE @ + 1]
  /\ UNCHANGED <<storeVars, teamVars, hostVars, tally, bgVars>>

---------------------------------------------------------------------------
(* What the lead, or its host, does; spawn_teammate borrows the lead until *)
(* it returns.                                                             *)

LeadIsFree == phase = "up" /\ spawn = Idle

send_message(m) ==
  /\ LeadIsFree /\ Known(m)
  /\ Post({m}, "message")
  /\ act' = WithWakesDue({m})
  /\ UNCHANGED <<records, members, registered, actors, requests, shutdowns,
                 hostVars, tally, bgVars>>

broadcast_message ==
  LET recipients == {m \in Mates : Known(m)} IN
  /\ LeadIsFree /\ recipients # {}
  /\ Post(recipients, "message")
  /\ act' = WithWakesDue(recipients)
  /\ UNCHANGED <<records, members, registered, actors, requests, shutdowns,
                 hostVars, tally, bgVars>>

create_request(m) ==
  /\ LeadIsFree /\ Known(m) /\ Len(requests) < MaxRequests
  /\ Post({m}, "request")
  /\ requests' = Append(requests, [to |-> m, status |-> "pending", stored |-> "pending"])
  /\ act' = WithWakesDue({m})
  /\ UNCHANGED <<records, members, registered, actors, shutdowns, hostVars, tally, bgVars>>

(* A run of the lead, or wait_for_teammate_reply, takes its inbox ...      *)
LeadReads ==
  /\ LeadIsFree /\ Rows(Lead, "pending") # {}
  /\ inbox' = read_team_inbox(Lead)
  /\ unread' = [unread EXCEPT ![Lead] = 0]
  /\ UNCHANGED <<records, members, registered, actors, requests, shutdowns,
                 act, hostVars, tally, bgVars>>

(* ... and the next run that ends acknowledges or requeues it.             *)
LeadSettles(ok) ==
  /\ LeadIsFree /\ Rows(Lead, "inflight") # {}
  /\ ok \/ MoreTrouble
  /\ faults' = IF ok THEN faults ELSE faults + 1
  /\ inbox' = IF ok THEN ack_team_inbox(Lead) ELSE requeue_team_inbox(Lead)
  /\ unread' = [unread EXCEPT ![Lead] =
                  Cardinality({k \in DOMAIN inbox' : inbox'[k].to = Lead /\ inbox'[k].state = "pending"})]
  /\ UNCHANGED <<records, members, registered, actors, requests, shutdowns,
                 act, hostVars, crashes, evicted, settings, bgVars>>

---------------------------------------------------------------------------
(* Spawning and reviving. *)

(* The agent is built (its record stored, its observer registered, its     *)
(* unread count and background tasks loaded) and its task spawned.         *)
OpenActor_NoneUnread(a, m) ==
  /\ registered' = registered \cup {m}
  /\ unread' = [unread EXCEPT ![m] = 0]
  /\ tasks' = [tasks EXCEPT ![a] = LoadedTasks(a)]
  /\ act' = [act EXCEPT ![a] = [NoTask EXCEPT !.pc = "start"]]
  /\ spawn' = [agent |-> a, stage |-> "register"]

OpenActor(a, m) ==
  /\ registered' = registered \cup {m}
  /\ unread' = [unread EXCEPT ![m] = unread_team_count(m)]
  /\ tasks' = [tasks EXCEPT ![a] = LoadedTasks(a)]
  /\ act' = [act EXCEPT ![a] = [NoTask EXCEPT !.pc = "start"]]
  /\ spawn' = [agent |-> a, stage |-> "register"]

spawn_teammate(m) ==
  /\ LeadIsFree /\ Len(records) < MaxAgents
  /\ records' = Append(records, m)
  /\ OpenActor(Len(records) + 1, m)
  /\ UNCHANGED <<inbox, members, actors, requests, shutdowns, phase, cursor, tally,
                 rows, counter, jobs>>

revive_teammate_actor ==
  /\ phase = "resuming" /\ spawn = Idle /\ cursor <= Len(records)
  /\ OpenActor(cursor, records[cursor])
  /\ UNCHANGED <<storeVars, members, actors, requests, shutdowns, phase, cursor, tally,
                 rows, counter, jobs>>

(* TeamManager::spawn_teammate refuses a name whose actor is registered;   *)
(* a revived actor is then woken.                                          *)
Taken(m) == actors[m] # 0

register_teammate ==
  LET a == spawn.agent
      m == records[a]
  IN
  /\ spawn.stage = "register"
  /\ IF Taken(m)
     THEN /\ spawn' = [spawn EXCEPT !.stage = "cancel"]
          /\ UNCHANGED <<members, actors>>
     ELSE /\ actors' = [actors EXCEPT ![m] = a]
          /\ members' = [members EXCEPT ![m] = "idle"]
          /\ spawn' = IF phase = "resuming" THEN [spawn EXCEPT !.stage = "wake"] ELSE Idle
  /\ UNCHANGED <<storeVars, unread, registered, requests, shutdowns, act,
                 phase, cursor, tally, bgVars>>

(* wake_teammate, and on to the next record; after the last, resume is done *)
wake_revived ==
  /\ spawn.stage = "wake"
  /\ act' = [act EXCEPT ![spawn.agent].wakes = @ + 1]
  /\ spawn' = Idle /\ cursor' = cursor + 1
  /\ UNCHANGED <<storeVars, teamVars, phase, tally, bgVars>>

ResumeDone ==
  /\ phase = "resuming" /\ spawn = Idle /\ cursor > Len(records)
  /\ phase' = "up" /\ cursor' = 0
  /\ UNCHANGED <<storeVars, teamVars, act, spawn, tally, bgVars>>

(* A refused actor's handle is dropped: cancel, then abort.  The error     *)
(* also ends a resume, whichever records are left.                         *)
DropHandle ==
  /\ spawn.stage \in {"cancel", "abort"}
  /\ IF spawn.stage = "cancel"
     THEN /\ act' = [act EXCEPT ![spawn.agent].cancelled = TRUE]
          /\ spawn' = [spawn EXCEPT !.stage = "abort"]
          /\ UNCHANGED phase
     ELSE /\ act' = [act EXCEPT ![spawn.agent].aborted = TRUE]
          /\ spawn' = Idle
          /\ phase' = IF phase = "resuming" THEN "refused" ELSE phase
  /\ UNCHANGED <<storeVars, teamVars, cursor, tally, bgVars>>
---------------------------------------------------------------------------
(* The actor's loop. *)

Goto(a, where) == act' = [act EXCEPT ![a].pc = where]
Resting(a) == IF act[a].cancelled THEN "leave" ELSE "wait"
Calm == UNCHANGED <<storeVars, teamVars, hostVars, tally, bgVars>>

(* The task is polled for the first time; it reads its token a little      *)
(* later in the same poll, which an abort does not interrupt.              *)
Enter(a) ==
  /\ act[a].pc = "start" /\ ~act[a].aborted
  /\ Goto(a, "entry") /\ Calm

CheckToken(a) ==
  /\ act[a].pc = "entry"
  /\ Goto(a, Resting(a)) /\ Calm

ReceiveWake_ExactlyOne(a) ==
  /\ act[a].pc = "wait" /\ ~act[a].aborted /\ act[a].wakes = 1
  /\ act' = [act EXCEPT ![a].wakes = @ - 1, ![a].pc = "look", ![a].worked = FALSE]
  /\ Calm

ReceiveWake(a) ==
  /\ act[a].pc = "wait" /\ ~act[a].aborted /\ act[a].wakes > 0
  /\ act' = [act EXCEPT ![a].wakes = @ - 1, ![a].pc = "look", ![a].worked = FALSE]
  /\ Calm

(* execute_prompt's opening: the member is Working, the agent's run starts. *)
(* A run for a claimed task (from "wait") is not part of pending work.     *)
StartPrompt(a) ==
  /\ members' = [members EXCEPT ![records[a]] = "working"]
  /\ act' = [act EXCEPT ![a].pc = "prompt", ![a].worked = (act[a].pc # "wait")]

(* next_pending_work: messages, then notifications, then the shutdown      *)
(* signal.  With the signal the member shuts down; with nothing it is idle *)
(* again if it worked, and its token is read before it waits.  What arrives *)
(* between the three reads comes with a wake, as what arrives after them.  *)
next_pending_work(a) ==
  LET m == records[a] IN
  /\ act[a].pc = "look"
  /\ \/ /\ Rows(m, "pending") # {} \/ has_deliverable_notifications(a)
        /\ StartPrompt(a)
        /\ UNCHANGED shutdowns
     \/ /\ Rows(m, "pending") = {} /\ ~has_deliverable_notifications(a)
        /\ shutdowns' = shutdowns \ {m}
        /\ IF m \in shutdowns
           THEN members' = [members EXCEPT ![m] = "shutdown"] /\ Goto(a, "leave")
           ELSE /\ members' = IF act[a].worked THEN [members EXCEPT ![m] = "idle"] ELSE members
                /\ Goto(a, Resting(a))
  /\ UNCHANGED <<storeVars, unread, registered, actors, requests, hostVars, tally, bgVars>>

(* autonomy_tick: the signal, then a ready task, then the idle timeout.    *)
(* The poll interval is longer than a spawn takes to register its actor.   *)
autonomy_tick(a) ==
  LET m == records[a]
      Stops == members' = [members EXCEPT ![m] = "shutdown"] /\ Goto(a, "leave")
  IN
  /\ "autonomy" \in settings /\ act[a].pc = "wait" /\ ~act[a].aborted /\ spawn.agent # a
  /\ shutdowns' = shutdowns \ {m}
  /\ IF m \in shutdowns THEN Stops ELSE StartPrompt(a) \/ Stops
  /\ UNCHANGED <<storeVars, unread, registered, actors, requests, hostVars, tally, bgVars>>

(* A run takes the inbox and the notifications when it opens and before    *)
(* each further model request.                                             *)
InjectInput(a) ==
  LET m == records[a] IN
  /\ act[a].pc = "prompt" \/ (act[a].pc = "turn" /\ ~act[a].aborted)
  /\ inbox' = read_team_inbox(m)
  /\ unread' = [unread EXCEPT ![m] = 0]
  /\ rows' = drain_notifications(rows, a)
  /\ act' = [act EXCEPT ![a].pc = "turn",
                        ![a].letters = @ \cup Rows(m, "pending"),
                        ![a].notes = @ \cup Noted(a, "pending")]
  /\ UNCHANGED <<records, members, registered, actors, requests, shutdowns,
                 hostVars, tally, tasks, counter, jobs>>

InTurn(a) == act[a].pc = "turn" /\ ~act[a].aborted

team_read_inbox(a) ==
  LET m == records[a] IN
  /\ InTurn(a) /\ Rows(m, "pending") # {}
  /\ inbox' = read_team_inbox(m)
  /\ unread' = [unread EXCEPT ![m] = 0]
  /\ act' = [act EXCEPT ![a].letters = @ \cup Rows(m, "pending")]
  /\ UNCHANGED <<records, members, registered, actors, requests, shutdowns,
                 hostVars, tally, bgVars>>

team_send(a, to) ==
  /\ InTurn(a) /\ (to \in Mates => Known(to))
  /\ Post({to}, "message")
  /\ act' = WithWakesDue({to})
  /\ UNCHANGED <<records, members, registered, actors, requests, shutdowns,
                 hostVars, tally, bgVars>>

Resolved(request, verdict, saved) ==
  [request EXCEPT !.status = verdict, !.stored = IF saved THEN verdict ELSE @]

Signalled(m, verdict) == IF verdict = "approved" THEN shutdowns \cup {m} ELSE shutdowns

(* The request is resolved in memory first; a response that cannot be      *)
(* appended, or a request that cannot be stored, ends the call with an     *)
(* error and what came before it stays.                                    *)
resolve_request(a, r, verdict, failing) ==
  LET m == records[a] IN
  /\ InTurn(a) /\ r \in DOMAIN requests
  /\ requests[r].to = m /\ requests[r].status = "pending"
  /\ failing = "none" \/ MoreTrouble
  /\ faults' = IF failing = "none" THEN faults ELSE faults + 1
  /\ requests' = [requests EXCEPT ![r] = Resolved(@, verdict, failing = "none")]
  /\ IF failing = "append"
     THEN UNCHANGED <<inbox, unread, shutdowns>>
     ELSE /\ Post({Lead}, "response")
          /\ shutdowns' = Signalled(m, verdict)
  /\ UNCHANGED <<records, members, registered, actors, act, hostVars, crashes, evicted, settings, bgVars>>

background_run(a) ==
  /\ "background" \in settings /\ InTurn(a) /\ start_task(a)
  /\ UNCHANGED <<storeVars, teamVars, act, hostVars, tally>>

AfterRun_Waits(a, ok) == Resting(a)
AfterRun(a, ok) == IF ok THEN "look" ELSE Resting(a)

(* The run ends.  Success acknowledges every inflight row and the actor    *)
(* looks for more (idle in between, after a claimed task); failure requeues them, marks the member Failed and the  *)
(* actor goes back to waiting.                                             *)
RunEnds(a, ok) ==
  LET m == records[a] IN
  /\ InTurn(a) /\ (ok \/ MoreTrouble)
  /\ faults' = IF ok THEN faults ELSE faults + 1
  /\ inbox' = IF ok THEN ack_team_inbox(m) ELSE requeue_team_inbox(m)
  /\ unread' = [unread EXCEPT ![m] =
                  Cardinality({k \in DOMAIN inbox' : inbox'[k].to = m /\ inbox'[k].state = "pending"})]
  /\ rows' = IF ok THEN acknowledge_notifications(rows, a)
             ELSE IF act[a].notes # {} THEN requeue_notifications(rows, a) ELSE rows
  /\ members' = [members EXCEPT ![m] =
                   CASE ~ok -> "failed"
                     [] ok /\ act[a].worked -> @
                     [] ok /\ ~act[a].worked -> "idle"]
  /\ act' = [act EXCEPT ![a].letters = {}, ![a].notes = {},
                        ![a].pc = AfterRun(a, ok)]
  /\ UNCHANGED <<records, registered, actors, requests, shutdowns, hostVars, crashes, evicted, settings,
                 tasks, counter, jobs>>

(* unregister_teammate_actor removes the handle registered under the name, *)
(* and dropping a handle cancels and aborts the task it belongs to.        *)
unregister_teammate_actor(a) ==
  LET m == records[a]
      owner == actors[m]
  IN
  /\ act[a].pc = "leave"
  /\ actors' = [actors EXCEPT ![m] = 0]
  /\ act' = [b \in AgentIds |->
               CASE b = a -> [act[b] EXCEPT !.pc = "gone", !.wakes = 0]
                 [] b # a /\ b = owner -> [act[b] EXCEPT !.cancelled = TRUE, !.aborted = TRUE]
                 [] OTHER -> act[b]]
  /\ evicted' = (evicted \/ owner \notin {0, a})
  /\ UNCHANGED <<storeVars, members, unread, registered, requests, shutdowns,
                 hostVars, faults, crashes, settings, bgVars>>

AbortLands(a) ==
  /\ act[a].aborted /\ act[a].pc \in Suspended
  /\ act' = [act EXCEPT ![a].pc = "gone", ![a].wakes = 0]
  /\ Calm
---------------------------------------------------------------------------
(* Background commands: a finished one wakes its teammate. *)

CommandEnds(j) ==
  /\ phase # "down" /\ CloseJob(j)
  /\ UNCHANGED <<storeVars, teamVars, act, hostVars, tally>>

SaveOutcome(j, ok) ==
  /\ phase # "down" /\ SaveJob(j, ok)
  /\ ok \/ MoreTrouble
  /\ faults' = IF ok THEN faults ELSE faults + 1
  /\ UNCHANGED <<storeVars, teamVars, act, hostVars, crashes, evicted, settings>>

RingActor(j) ==
  /\ phase # "down" /\ RingJob(j)
  /\ LET owner == actors[records[jobs[j].agent]] IN
     act' = IF owner = 0 THEN act ELSE [act EXCEPT ![owner].due = @ + 1]
  /\ UNCHANGED <<storeVars, teamVars, hostVars, tally>>

---------------------------------------------------------------------------
(* The process dies, and a new one opens the store and resumes. *)

Crash ==
  /\ phase # "down" /\ MoreTrouble
  /\ crashes' = crashes + 1
  /\ phase' = "down" /\ spawn' = Idle /\ cursor' = 0
  /\ act' = [a \in AgentIds |-> NoTask]
  /\ actors' = [m \in Mates |-> 0]
  /\ shutdowns' = {} /\ registered' = {}
  /\ unread' = [n \in Names |-> 0]
  /\ LoseJobs
  /\ UNCHANGED <<storeVars, members, requests, faults, evicted, settings>>

(* prepare_recovery, the team state read back, the lead's agent loaded.    *)
Restart ==
  /\ phase = "down"
  /\ phase' = "resuming" /\ cursor' = 1
  /\ inbox' = [k \in DOMAIN inbox |->
                 IF inbox[k].state = "inflight" THEN [inbox[k] EXCEPT !.state = "pending"]
                 ELSE inbox[k]]
  /\ rows' = RecoveredRows
  /\ requests' = [r \in DOMAIN requests |-> [requests[r] EXCEPT !.status = requests[r].stored]]
  /\ registered' = {Lead}
  /\ unread' = [unread EXCEPT ![Lead] =
                  Cardinality({k \in DOMAIN inbox' : inbox'[k].to = Lead /\ inbox'[k].state = "pending"})]
  /\ UNCHANGED <<records, members, actors, shutdowns, act, spawn, tally, tasks, counter, jobs>>

---------------------------------------------------------------------------
LeadStep ==
  \/ \E m \in Mates : send_message(m) \/ create_request(m) \/ spawn_teammate(m)
  \/ broadcast_message
  \/ LeadReads
  \/ \E ok \in BOOLEAN : LeadSettles(ok)

HostStep ==
  revive_teammate_actor \/ register_teammate \/ wake_revived \/ ResumeDone \/ DropHandle

(* What the actor's task does by itself. *)
ActorStep(a) ==
  \/ SendWake(a) \/ Enter(a) \/ CheckToken(a) \/ ReceiveWake(a)
  \/ next_pending_work(a)
  \/ (act[a].pc = "prompt" /\ InjectInput(a))
  \/ (\E ok \in BOOLEAN : RunEnds(a, ok))
  \/ unregister_teammate_actor(a) \/ AbortLands(a)

(* What a turn may do on the way, and the autonomy timer. *)
TurnStep(a) ==
  \/ (InTurn(a) /\ InjectInput(a))
  \/ team_read_inbox(a)
  \/ \E n \in Names : team_send(a, n)
  \/ \E r \in DOMAIN requests, v \in {"approved", "rejected"}, f \in {"none", "append", "store"} :
       resolve_request(a, r, v, f)
  \/ background_run(a)
  \/ autonomy_tick(a)

JobStep(j) == CommandEnds(j) \/ (\E ok \in BOOLEAN : SaveOutcome(j, ok)) \/ RingActor(j)

Next ==
  \/ LeadStep \/ HostStep
  \/ \E a \in AgentIds : ActorStep(a) \/ TurnStep(a)
  \/ \E j \in Jobs : JobStep(j)
  \/ Crash \/ Restart

Spec == Init /\ [][Next]_vars

(* Tokio polls every ready task, a run ends (its rounds, tools and model   *)
(* calls are bounded or time out), a command ends and the host goes on.    *)
FairSpec ==
  /\ Spec
  /\ WF_vars(HostStep)
  /\ \A a \in AgentIds : WF_vars(ActorStep(a))
  /\ \A j \in Jobs : WF_vars(JobStep(j))

---------------------------------------------------------------------------
(* Properties *)

Ours(a) == a <= Len(records) /\ actors[records[a]] = a

(* The unread count a snapshot shows (unread_counts, changed by appends,   *)
(* reads, acknowledgements and requeues on several threads) is the number  *)
(* of pending rows of the store, for every agent this process registered.  *)
UnreadIsAccurate == \A n \in registered : unread[n] = unread_team_count(n)

(* Wake-driven actors miss no wake: a registered actor that waits with no  *)
(* wake in its channel and none on its way has read every message appended *)
(* since it was registered, has no notification and no shutdown signal,    *)
(* unless its last run failed (the actor does not retry by itself).        *)
NoWakeMissed ==
  \A a \in AgentIds :
    (/\ Ours(a) /\ act[a].pc = "wait" /\ act[a].wakes = 0 /\ act[a].due = 0
     /\ ~act[a].aborted /\ members[records[a]] # "failed" /\ spawn.agent # a)
      => /\ \A k \in Rows(records[a], "pending") : inbox[k].rang # a
         /\ records[a] \notin shutdowns
         /\ \A n \in Noted(a, "pending") : \E j \in DOMAIN jobs :
              jobs[j].agent = a /\ jobs[j].id = n /\ jobs[j].stage \in {"closing", "saved"}

(* The acknowledgement at the end of a run (all inflight rows of the name, *)
(* all inflight notifications of the agent) covers exactly what that run   *)
(* read: nothing else is inflight under the name, and nothing at all when  *)
(* no run is going.                                                        *)
InflightIsHeld ==
  ~evicted /\ phase # "down" =>
    /\ \A m \in Mates \cap registered :
         Rows(m, "inflight") =
           UNION {act[a].letters : a \in {b \in 1..Len(records) : records[b] = m}}
    /\ \A a \in 1..Len(records) :
         act[a].pc # "absent" => Noted(a, "inflight") \subseteq act[a].notes

(* Two actors of one name never work the same inbox: spawning a name that  *)
(* is live is refused before the second actor is ever woken.               *)
OneWorkerPerName ==
  ~evicted =>
    \A a, b \in 1..Len(records) :
      (/\ a # b /\ records[a] = records[b]
       /\ {act[a].pc, act[b].pc} \subseteq {"look", "prompt", "turn"})
        => FALSE

(* A request is answered once, across crashes too: there is a response for *)
(* every request that is stored as resolved, and for no other, but one for *)
(* each store write that failed after its response was appended            *)
(* (resolve_request appends first; a restart then makes the request        *)
(* answerable again).                                                      *)
AnsweredOnce ==
  Cardinality({k \in DOMAIN inbox : inbox[k].kind = "response"})
    - Cardinality({r \in DOMAIN requests : requests[r].stored # "pending"}) \in 0..faults

(* Without autonomy, and while no store write fails, a member is shut down *)
(* only when it approved a shutdown request.                               *)
StopsOnlyWhenAgreed ==
  "autonomy" \notin settings /\ faults = 0 => \A m \in Mates :
    members[m] = "shutdown" => \E r \in DOMAIN requests : requests[r].to = m /\ requests[r].status = "approved"

(* The team's books agree, whatever interleaves or dies: see               *)
(* UnreadIsAccurate, InflightIsHeld, OneWorkerPerName, AnsweredOnce and    *)
(* StopsOnlyWhenAgreed.                                                    *)
TeamIsConsistent ==
  /\ TypeOK /\ UnreadIsAccurate /\ InflightIsHeld
  /\ OneWorkerPerName /\ AnsweredOnce /\ StopsOnlyWhenAgreed

(* Messages appended while a teammate's actor is registered are taken up   *)
(* by it, unless it fails, stops or dies with its process.                 *)
Owed(m) == \E k \in Rows(m, "pending") : inbox[k].rang # 0 /\ inbox[k].rang = actors[m]

WorkIsTaken == \A m \in Mates : Owed(m) ~> (~Owed(m) \/ members[m] = "failed")

(* Runtime::resume revives the teammates the store holds, whatever was     *)
(* spawned, shut down and spawned again before the restart.                *)
ResumeRevives == phase # "refused"
=============================================================================
