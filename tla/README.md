# A TLA+ development for mentra

mentra is a Rust runtime for language-model agents. It keeps an agent's
conversation, drives the loop *ask the model, run its tools, commit the
results*, lets the host steer a run under way, runs teammates and background
commands beside it, talks to model providers and remote tools, and stores all
of it so that an agent survives its process. This directory holds TLA+ models
of that runtime, the TLC configurations that check them and proofs that TLAPS
checks. Paths are relative to `src/mentra/src/` unless they begin with `src/`.

`PROJECT.json` lists every part with what is modelled of it, the runs, the map
from definitions to source lines, the findings, the hazards the properties are
aimed at, and the theorems.

## 1. The system and its parts

How they interact. `Agent::drive_run` opens a run in the **journal**, loops over
rounds in `TurnRunner`, and settles the run. A round drains **steering**, claims
letters of teammates and notes of **background commands** in the **store**,
projects the **transcript** into a request (**compaction** replaces what no longer
fits), sends it through a **provider** scope, possibly a **gateway ring**, to one
of four wire protocols, decodes the stream into an assistant message, commits
it, and hands its calls to the **tool orchestrator**. That asks the **hooks** and
the **session**'s approvals, runs the calls (file tools, **bounded processes**,
**MCP** and **A2A** clients, **subagents**) and answers each. A **teammate** is an
actor that runs an agent whenever its inbox, a finished command or the **task
board** wakes it. After a crash the store is reconciled, each agent's memory is
recovered and the teammates are revived.

| part | source | module |
|---|---|---|
| transcript tree | `transcript.rs`, `compaction.rs` | `Transcript`, `TranscriptTree` |
| run journal | `memory/journal/` | `AgentMemory`, `Journal` |
| run loop, steering, delivery, settlement | `agent/runner.rs`, `agent/lifecycle.rs`, `agent/steering.rs`, `agent/deferred.rs` | `AgentRun` |
| tool orchestration | `tool/orchestrator.rs` | `ToolOrchestrator` |
| background commands, teammates | `background.rs`, `team/`, `agent/team.rs` | `Background`, `Team` |
| projection and compaction | `memory/compaction.rs`, `compaction.rs` | `Compaction` |
| subagents, typed answers | `agent/subagent.rs`, `agent/terminal_output.rs` | `Delegation`, `RunBounds` |
| run options, budgets, retries | `runtime/control/run.rs` | `RunBounds` |
| task board | `runtime/task/`, `agent/task_state.rs` | `TaskBoard` |
| bounded commands | `process/bounded.rs` | `BoundedProcess` |
| output limits, paging, skill headers | `process/capture.rs`, `tool/truncation.rs`, `tool/paging.rs`, `frontmatter.rs`, `runtime/skill.rs` | `TextForms` |
| sessions, approvals, remembered rules | `session/`, `runtime/file_store/rules.rs` | `Session`, `RuleMap` |
| hooks | `runtime/control/hooks.rs` | `HookRegistry` |
| tools and skills on offer | `tool.rs`, `runtime/skill/registry.rs` | `Capabilities` |
| file tools | `tool/files/` | `FileTools` |
| path and command policy | `runtime/control/policy.rs` | `Policy` |
| file store | `runtime/file_store/` | `FileStore`, `AgentStore` |
| SQLite, volatile and hybrid stores, long-term memory | `runtime/sqlite_store.rs`, `runtime/volatile_store.rs`, `memory/engine.rs` | `SqliteStore`, `RowStores` |
| gateway ring, Responses session | `src/mentra-provider/src/gateway_ring.rs`, `src/mentra-provider/src/responses/` | `Connections` |
| provider registry and scopes | `provider.rs`, `runtime.rs` | `ProviderScopes` |
| sign-in | `auth/openai/` | `OAuthTokens` |
| stream decoders, request builders | `src/mentra-provider/src/` | `StreamDecode`, `RequestModel` |
| MCP clients | `mcp/` | `McpTransports`, `McpTools`, `RemoteWire` |
| A2A client | `a2a/` | `A2aClient`, `RemoteWire` |

## 2. The modules

A step of every model ends where the code awaits, unlocks, or writes something
durable, so that whatever else runs may fall between two of them. What the
code does under one lock or in one SQL transaction is one step. Host code
(hooks, authorizers, tools), model endpoints and remote servers answer anything
their interface allows.

**Transcript** is a set of operators: an active path, an archive of the entries
left by branching, and the next id; `Push`, `BranchFrom`, `FromParts` and
`CompactionOutcomes` are the code's functions. **TranscriptTree** gives them a
state machine. **AgentMemory** has the methods of `AgentMemory` without their
trailing `persist()`, and **Journal** applies one method *with* its save per step.
A save bumps the revision and may fail, leaving memory ahead of the store; a
crash loses the memory; recovery settles what the stored copy was left with. A
compaction is two steps, because the summary is made outside the journal.

**AgentRun** composes AgentMemory with everything `drive_run` touches. `pc` is the
place in `drive_run` or `TurnRunner::run`. Between any two of its steps fall the
host (steers, follow-ups, clears, stop, cancel), teammates (letters), commands
(notes), tools (deferred answers), a failing write or a crash. Limits, budgets,
retries, the resend after an overflow, malformed calls and the round strategy
are there.

**ToolOrchestrator** is `execute_calls`: `starts` cuts the calls into batches,
`batch` is the one in hand and `at` the loop's index; each call is admitted
(`NoteStarted`, `ApplyHooks`, `AskAuthorizer` and its answers), started, joined
(`JoinNext`, `JoinAborts`, `JoinEnds`) or run alone, and reviewed. The budget is
charged for a batch before it runs.

**Background** has the command manager, its table and the task of a command, and
**Team** extends it with the team manager, the actors, spawning and resume. Each
manager operation holds one lock and is one step; what a caller does after
unlocking (sending the wake it cloned, dropping a refused handle) is another.

**FileStore** is the four files of an agent's directory, its session's rows in
`rules.json`, the lease lock and the in-memory log index, for several processes.
Each place an operation touches the disk is a step that succeeds, fails with
the old or the new file, or dies; an append cut short leaves any prefix of its
lines and perhaps a torn one. **AgentStore** is the contract it implements: an
operation takes effect as a whole at one moment or not at all, and one that
returned Ok has. The abstract state is what `load_agent` returns. This is the
atomic save that Journal and AgentRun take for granted.

**SqliteStore** is one database shared by processes, each operation on its own
connection: writers are one transaction, `load_agent` and `list_agents` several
statements with other processes between them; deleting an agent takes its
session's rules along. Leases run out by the clock. A process may be killed and
its letters recovered. **RowStores** makes the same calls on the SQLite and the
volatile store and compares what they answer, and has the long-term memory engine
on the volatile and the hybrid store. The two stores differ in three ways, which
`StoresAnswerAlike` names and excepts: the volatile one has no timestamps, it
lists jobs by identifier where SQLite lists them by creation, and a record
without its memory fails all of its listings where SQLite fails only those that
name the agent.

**Session** has the permission requests of several hosts, their answers, time-outs
and cancellations; the remembered rules with the three stores' ways of editing
them, the cache of the rules file included; and the stream of session events.
**RuleMap** is the abstract rule map: one rule per address in its namespace, every
operation applied at once. The abstract rules are the rows on disk.
**HookRegistry** has the three chains, their locks, exclusive and shared
registrations counted by strong references, and the walk of a call over them: a
call that was refused still passes the post-execution hooks, an error of a hook or
of the tool's round ends it without them.
**Capabilities** has the tool registry and the skill registry, taken one lock
after the other.

**TaskBoard** has the edits of the task board, each one transaction, and the board
a run captures at its start and puts back when it fails. **RunBounds** has the
early-end slot, the shared token counter and the retry schedule of a run and of
the runs it delegates to, with widths kept where a delay saturates; and the
typed answer of a run. **Delegation** has the two ways of delegating and what a
compaction makes of them. **BoundedProcess** has a program, its descendants, the
two pipes and the host that waits under one deadline and two graces.
**Compaction** has the projection of tool results to a byte budget and the summary
with the files it carries. **TextForms** has the capture limits, the pager and the
front matter. **FileTools** has the staged overlay, its commit and rollback with
the temporary files and directories they make, the walk of a tree part of which
cannot be read, and the matching of edits; two insertions at one place keep the
order of the call. **Policy** resolves a path against a tree with links and
compares it with the roots; it is the one module with a `RECURSIVE` operator. A
command's directory is compared with its `..` folded and handed on as it was
written, so `GrantsAreInside` speaks of the directory itself only where no `..`
follows a link; and a denied root that is a dangling link denies no write.

**Connections** has the ring's shared health, which a call reads when it selects a
member and replaces when that member's answer is known, and the Responses
session over HTTP and one cached websocket. **ProviderScopes** has the registry
and the conversation scope each agent is bound to. **OAuthTokens** has credential
sources whose callers renew a key under the source's lock. **StreamDecode** folds
the frames of each wire into a message and compares it with what the endpoint
said. **RequestModel** translates a conversation that moves between wires.

**McpTransports** has the three transports as three specifications, **McpTools**
the manager's tool names and the reading of replies, **A2aClient** an exchange
with its stream and polling, the client's calls and the tool, and **RemoteWire**
the event-stream framings and the requests with their credentials. A call ends in
one of three ways: the other side's answer, a failure to send, or "indeterminate".
An error in the answer, or an answer that cannot be parsed, does not mean that
nothing ran. The MCP parser refuses a chunk as a whole, so events completed earlier
in a chunk that it refuses are not read; `EventsAreRead` allows for that.

The modules that share a run are put side by side by **MCContext**, **MCHost**,
**MCProvider** and **MCServices**: a variable `part` is chosen at the start, the
steps are those of that part's specification, and the other parts stay as they
began. The parts share no state, so this checks each of them by itself. MCServices
has the SQLite store twice, once without deliveries (`rows`) and once without
creations and deletions (`mail`). **MCAgent** adds to AgentRun the constraint
`OneSetting`: two steers, or one and a follow-up, are explored apart from letters,
notes and crashes, and the last run ends in its first round.

A definition `Name_Something` (`Push_Unlinked`, `upsert_AnySession`) is `Name` with
a plausible defect; the mutants of `PROJECT.json` put it in Name's place to show
that a property notices. Nothing else uses it.

## 3. The runs

| run | what it asks | distinct states |
|---|---|---|
| `journal` | An interrupted turn can be continued, from memory and from the store; the store follows the memory; a compaction drops nothing that was appended while it ran. | 155,271 |
| `AgentRecovery` | Queued input keeps its order and is not lost; a letter or note is acknowledged only once stored, none stays claimed; calls that ran are stored and not replayed; a failed run leaves no trace. | 1,233,477 |
| `AgentProgress` | Every run returns; the model budget holds up to the resend after an overflow. | 591,632 |
| `ToolOrchestrator` | Every call is answered once, in order and truly; what mutates runs alone; budget, authorization, termination; every round ends. | 400,130 |
| `Team` | Unread counts, inflight rows, one worker per name, one answer per request, stops only when agreed; no wake is missed; messages are taken up. | 554,384 |
| `FileStore` | The files implement the contract; leaf and index name committed lines; a delete is whole and in order. | 1,656,450 |
| `services` | MCP and A2A clients report failures truly, keep one conversation, read every event and hand work over once; processes share a database safely; the stores answer alike; memory is kept. | 643,417 |
| `host` | Approvals are by the rules in force; the rules file implements RuleMap; hooks are there while held and are asked; edits are whole; what the policy grants is inside the roots. | 759,871 |
| `context` | The transcript is a tree; the window is spent well; runs keep apart; blockers are real; commands' answers are whole; text is exact; a compaction keeps the newest instruction, asks nobody for a run over its bounds and changes nothing when it gives up. | 689,212 |
| `Provider` | Callers that share a ring, a session, a scope or a token do not spoil each other's requests; responses and requests are faithful on every wire; what is offered is registered. | 784,572 |

The properties of the composed runs (`FailuresAreHonest`, `RunsKeepApart`, ...)
are conjunctions; the comment above each names its conjuncts and the code they
are about, and each conjunct is stated in the module of its part.

Two runs end in a violation. Each states what a comment of the repository says
and shows that the code does otherwise:

| run | what TLC shows |
|---|---|
| `ring_scopes` | A gateway ring forwards session scopes and not conversation scopes, so the agents of a runtime whose provider is a ring send on one scope, and one agent's request chains to another's response (`src/mentra-provider/src/gateway_ring.rs:529`, against `provider.rs:93`). |
| `delegation_tail` | A compaction starts the kept tail at the last delegated result without looking for its call, so the summary takes the call and the tail keeps the result (`compaction.rs:761`, against `compaction.rs:336`). |

### Properties that do not hold and have no run

These are defined in the modules, each a sentence of a comment or a document,
and TLC finds each of them violated. They are kept for whoever changes the code.

| property | what happens |
|---|---|
| `EveryEntryReachable` (TranscriptTree) | A compaction keeps entries whose parent it summarised away; one of them, once left by branching, can no longer be branched to (`transcript.rs:56`). |
| `FailedContinuationStays` (AgentRun) | A continuation stopped before its first request returns an error and is settled as finished (`agent/lifecycle.rs:50`). |
| `ResumeRevives` (Team) | `spawn_teammate` stores a record before the name is refused; the next `Runtime::resume` fails on the second record of that name. |
| `LeaseGuardsWrites` (FileStore) | `from_loaded` saves a recovery before it asks for the lease (`agent.rs:348`, against `runtime/file_store.rs:38`). |
| `CompletedIsUnblocked` (TaskBoard) | The status is validated before it is changed, so a blocked pending task can be completed (`runtime/task/graph.rs:28`, against line 151). |
| `NothingLeftRunning` (BoundedProcess) | A descendant that closed its pipes, or left the group, outlives the command (against `process/bounded.rs:97`). |
| `WrittenIsLoadable` (SqliteStore) | An agent deleted while held writes its record again without a memory row, and cannot be loaded (against `runtime.rs:832`). |
| `ForgettingIsOnesOwn` on the SQLite store (RowStores) | The index rows of a record are deleted without asking whose it is (`runtime/sqlite_store.rs:1484`). The run has the other two stores. |
| `SkillToolFollowsRoots` (Capabilities) | An unregistration and a registration that overlap leave a root without `load_skill` (against `runtime.rs:617`). |
| `NeverDropsUnderLock` (HookRegistry) | `register_shared` upgrades a weak reference under the lock; if that becomes the last one, the registration is destroyed there (`runtime/control/hooks.rs:704`, against line 738). |
| `StreamsDoNotMix` (Connections) | A stream abandoned unread leaves its frames on the cached socket for the next request (`src/mentra-provider/src/responses/websocket.rs:271`). The run checks that nothing else mixes. |
| `DriftsBack` (Connections) | A late answer of a member the ring has left clears when it was left, so its rest is no longer timed (against `src/mentra-provider/src/gateway_ring.rs:58`). |
| `LeftIsOnProbation` (Connections) | A ring that drifts back from a member on probation, and later rotates onto it again, finds no `left_at` and takes the probation for over (`src/mentra-provider/src/gateway_ring/health.rs:138`, against `gateway_ring.rs:54`). |
| `ExpiredIsRecovered` (McpTransports) | Of two calls refused for a forgotten session, the one that looks after the other has cleared it gives up (`mcp/streamable_http/client.rs:392`). |
| `CancelledIsCancelled` (A2aClient) | A cancellation that arrives while a poll is in flight at the deadline hands the task back uncancelled (against `a2a/tool.rs:24`). |

Three more were met. A requeue or recovery by one process returns letters that
another live process holds (`runtime/sqlite_store.rs:131`), which
`LettersAreClaimedOnce` allows for. The resend after a context overflow is not
checked against the model budget (`agent/runner.rs:532`, against
`runtime/control/run.rs:220`), which `ModelBudgetHolds` allows for. And
post-execution hooks also judge results of calls that never ran
(`tool/orchestrator.rs:225`, against the comment at line 564).

### Bounds, and why they are enough

A bound is a guard named `Max...`, or the size of a set in a cfg; each is chosen
so that the whole story of a hazard fits. The runs turn deadlock checking off
because an agent at its bound, or at rest, stops.

- Order and loss in the steering queue need two entries, a run that fails with
  one of them inflight and a second run. A recovery needs a run that dies and one
  that follows it.
- Three calls are a concurrent batch of two with an exclusive call before or
  after it, and a budget of two lets a batch straddle the limit.
- Two agent records give a teammate's name its duplicate or its successor.
- Three log entries are a save after a failed save after a good one, and two
  troubles are a crash during the recovery from a failed write.
- Five entries and two compactions are a branch of a compacted path compacted
  again. Three tasks are a chain of blockers. Two descendants are one in the
  group and one that left it.
- Two hosts and two sessions of one project overlap a lookup with an edit of the
  rules; three inodes are a file replaced twice with the first one's inode free
  again. A host's own edit of session rules is a save (`SessionRulesAreSaved`);
  answers add them one by one. Two threads overlap a registration with a drop.
- A run captures the board only while it is empty (`MaxCaptured`); that any other
  board put back is as good is proved (`BlockersAreAlwaysReal`).
- Two overlapping calls let one be answered while another is sent again, dropped
  or overtaken; three streams or sessions are one lost, one recovered and one
  lost again. Two processes, a lease of two ticks and three ticks of time are a
  lease that runs out under its holder and is taken by the other.
- A ring of three with a threshold of two lets it leave a member, leave the next
  and come back. Two blocks of two pieces are an interleaving; four messages are
  a call, its result and the reply to it.

Whether more actors at once bring a new story is answered by proof where section
4 has one, and not checked elsewhere. `MCSymmetry` of the host and Provider
runs permutes sets whose members the specification treats alike; neither has a
liveness property.

### Fairness

Safety runs use none. The three liveness properties assume only that what the
runtime itself awaits comes back:

- `RunEnds`: weak fairness of the steps of a run: provider, tool and store calls
  return, by answer, error or timeout. Nothing is assumed of the host.
- `RoundEnds`: weak fairness of the orchestrator's steps: tools and the
  authorizer answer or time out, and a hook returns.
- `WorkIsTaken`: weak fairness of each actor's, each command's and the host's
  current step: tokio polls a ready task again, runs and commands end, and a
  host in the middle of a call gets on with it.

## 4. What is proved

Eight modules hold theorems. Each is about a specification the runs check, for
every value of its constants that satisfies the assumptions named here: where a
run has two processes and three entries, the theorem has any number. It rests on
the definitions, those assumptions and the library's facts about sets, functions
and sequences.

| theorem (module) | states | assumes |
|---|---|---|
| `InterruptedTurnTheorem`, `CompactionTheorem`, `StoreTheorem`, `TypeCorrectness` (JournalProofs) | `InterruptedIsContinuable`, `CompactionIsFresh`, `PendingOnlyInRun /\ StoreFollowsMemory` and `TypeOK` of Journal, always | `None` is no state |
| `CallsAreAlwaysAnswered`, `RunsAreAlwaysAsAsked` (ToolProofs) | `EveryCallAnswered` and `CallsRunAsAsked` of ToolOrchestrator, for any number of calls and any budget | `CallAssumption` |
| `LogIsAlwaysCommitted`, `RulesGoLast`, `FilesImplementTheStore` (FileStoreProofs) | `LogIsCommitted`, `DeletesInOrder` and the refinement `ImplementsAgentStore` of FileStore, for any processes, entries and failures | `StoreAssumption`, `NoneAssumption`, `~Contended` |
| `DatabaseIsAlwaysSafe` (SqliteProofs) | `SharedDatabaseIsSafe` of SqliteStore | a lease lasts at least a tick; markers are no rows |
| `RefreshIsNeverRepeated` (OAuthProofs) | `OneRefreshPerToken` of OAuthTokens | `HolderAssumption`, `SkewAssumption` |
| `BlockersAreAlwaysReal` (TaskBoardProofs) | `BlockersAreReal` of TaskBoard | `TaskIdsAssumption` |
| `EarlyEndsAreOwn` (BoundsProofs) | `EarlyEndIsOwn` of RunBounds | `BoundsAssumption` |
| `AnswersAreAlwaysWhole` (ProcessProofs) | `AnswersAreWhole` of BoundedProcess | `ProcessAssumption` |

The refinement theorem is about single steps, which is all `AgentStore!Spec`
asks for: it has no fairness.

### The arguments

**Journal.** Revisions decide whether a compaction is applied and whether a saved
copy is behind, so the properties need to know what a compaction under way has in
hand: `DraftIsOutcome`, that it is an outcome of the transcript it started from, at
a revision not above the memory's, and that a process that is down has none. The
transcript has no bound in the proof.

**The tool round.** `EveryCallAnswered` speaks only of the end of a round.
`ToolInv` says what is true on the way there: the loop is inside a batch that is a
stretch of the calls (`BatchIsWhole`), a call it has passed was answered or is
running and no other (`CallsAreSettled`), a call ran exactly if an execution or a
running task stands for it (`RanIsRecorded`), and the results are those of the
calls before, in order (`ResultsAreTrue`). For the second theorem: calls not yet
admitted are as the schedule saw them (`ScheduleStands`), the authorizer was asked
about a call as it is (`AdmittedAsIs`), and a batch was charged before it runs
(`BatchIsCharged`).

**The file store.** A save is several writes, each of which may fail, be cut
short, or be the last before the process dies, and memory of what the log holds
is kept by the process, not by the file. `StoreInv` has five parts:

- `OneAtATime`: one process at a time has the agent or is in an operation on it.
  This is what `~Contended` gives, the use the store's documentation asks of its
  hosts, and the case the run checks. The lease is not what the proof uses:
  `LeaseGuardsWrites` does not hold (section 3).
- `FilesOk`: an agent that is listed loads. Every entry its memory names is a whole
  line of the log, its leaf is one of them, and ids in the log are below the next.
- `KnowsLog`: an entry a process believes written, and its memory names, is in the
  log. A line without its newline is not believed to be.
- `HasAgent`: a process that has the agent finds it listed, but while it creates it.
- `CallOk`: what is on disk at each step of each operation. Here the order of the
  writes matters: entries before `state.json`, `state.json` before `agent.json`,
  the agent's files before its rules.

TLC checked `StoreInv` on the constants of the run before it was proved.

An atomic `AgentStore` commit is the write of `state.json` in a memory save, of
`agent.json` in a create or record save, and the unlink in a delete. A request
begins the abstract one, the last write or the clearing of rules returns, a
failed write returns an error with or without the commit, and everything else,
crashes and leases included, changes nothing abstract. So the atomic save Journal
assumes is what the files give it, for any number of entries, records and
processes, and not only for the two of the run.

**The database.** A lease a live process holds that has not run out is the row of
its key (`GrantsAreRows`), and a key has one row. An agent nobody deleted under its
holder has both rows or neither, its session's rules only with them, and a listing's identifiers still have records
(`RowsAreThere`). A letter in hand is not pending unless it was returned
(`HeldIsClaimed`).

**Tokens.** For each source: the caller inside a renewal holds the lock and what it
got is newer (`HolderInv`); a token that was presented is behind the one in memory,
or is being renewed by who presented it (`ShownInv`); nobody asks a source that is
not ready (`ReadyInv`). So the next caller finds newer tokens or a failed attempt.

**The task board.** `Sound(board, loose)` is kept for the stored board and for
every board a run captured to put back: each edit takes a sound board to a sound
one, or refuses. `loose` is whether a completed task has been reopened, after which
blockers need only be edges of the graph.

**Runs and their children.** The options of a run name its own slot, and a run that
is not over has nothing in it.

**The bounded command.** At each place of `run()` the invariant says who can be
alive: the program not after it was waited for, nobody of the group after the
kill. A descendant's pipes and group are inherited, so a stream once at its end
stays there.

## 5. What is only model-checked, and why

- Liveness (`RunEnds`, `RoundEnds`, `WorkIsTaken`) is out of the prover's reach.
- What a recursive definition computes for every input would need induction over
  data, which the installed provers cannot use: the folds of StreamDecode,
  RequestModel, RemoteWire, Compaction and TextForms, the path resolution of
  Policy (which has a `RECURSIVE` operator, and no theorem may reach one).
- No proof has been written yet for AgentRun, Team, Session (with its refinement
  of RuleMap), HookRegistry, the remote clients, RowStores, the gateway ring, nor
  for the parts of `RunsKeepApart` and `ConnectionsAreShared` other than the ones
  in section 4.

## 6. Abstractions, and what is not modelled

- Contents (texts, results, images, prompts) are tags, small numbers or absent;
  logging, formatting, hook events and the audit trail are left out.
- Time is a choice: a timeout may happen whenever the code waits under one. Where
  durations are compared (leases, cooldowns, token lifetimes, retry delays) there
  is a clock with a bound.
- A crash is the death of a process. What the operating system had accepted
  stays; a machine that loses unsynced data is not modelled.
- A store write is atomic in Journal, AgentRun and Team; FileStore and
  SqliteStore are where it is taken apart.
- A task aborted with its `JoinSet` is taken to stop at once, and a run future
  dropped by its host is not modelled.
- In FileStore a process is in one operation at a time, and `Contended = FALSE`
  has agents resumed and deleted only while nobody holds them, the use the
  store's documentation asks for. `Resume` leaves out the run row and the repair
  of a transcript an older version recovered; Journal has that repair.
- Patterns of permission rules are the sets of inputs they cover. Ranking of
  memories by floating-point scores is an arbitrary order.
- Policy's filesystem does not change between a decision and what follows it.
- Processes are unix ones: a group killed by its leader's id.
- Not modelled: the text rules for shell commands and the sandbox, JSON shapes and
  schemas, usage figures, media types, schema creation, configuration defaults,
  and the snapshots published to observers.

Hazards that were met while modelling and that no property covers, beyond those
noted in `PROJECT.json`:

- a turn with a valid and a malformed call leaves the valid one unanswered at
  the next boundary, where a stop commits it (`agent/runner.rs:127`);
- the stop token tripped between `next_request_is_available` and the next
  round's check consumes a steer no request carries (`agent/runner.rs:150`);
- `apply_deferred` takes the whole queue before it appends the first answer, so
  a failing save loses the rest (`agent/deferred.rs:150`);
- a delete racing a save of the same process can leave a log index that claims
  entries the removed log held (`runtime/file_store/agent.rs:144`).

## 7. Running

    tlc -workers 2 -config Team.cfg Team       # any run of PROJECT.json
    tlapm ToolProofs.tla                       # the proofs of one module

A run takes between a few seconds and three minutes with two workers. The proofs
take from 20 seconds (ProcessProofs) to about a quarter of an hour
(FileStoreProofs).
