----------------------------- MODULE RowStores ------------------------------
(***************************************************************************)
(* The stores that keep rows (SQLite, volatile and the hybrid of both):    *)
(* their agreement on what they answer, and the long-term memory engine on *)
(* each of them.                                                           *)
(***************************************************************************)
EXTENDS Integers, FiniteSets, Sequences, SequencesExt

(***************************************************************************)
(* The SQLite store and the volatile store behind the same traits          *)
(* (runtime/sqlite_store.rs, runtime/volatile_store.rs and its modules):   *)
(* one runtime makes the same calls on both, and what they answer is       *)
(* compared.  SQLite keeps rows and sorts them by whole seconds and        *)
(* identifier; the volatile store keeps vectors, maps and sequence         *)
(* numbers.  The hybrid store forwards to the first (hybrid_store.rs), the *)
(* file store's team, tasks and jobs to the second (delegated.rs).         *)
(***************************************************************************)

CONSTANTS StoreKeys,    \* identifiers, numbered in their alphabetical order, which need not
                        \* be that of their creation: "bg-10" is before "bg-2"
          Versions,     \* contents of a record
          Absent,       \* no row
          StoreTopics,  \* which traits are exercised
          MaxClock, MaxStoreOps

VARIABLES storeTopic, clock, sq, vo, said, storeOps

parityVars == <<storeTopic, clock, sq, vo, said, storeOps>>

NoRows == [k \in StoreKeys |-> Absent]
Deliveries == {"pending", "inflight", "acked"}

ParityInit ==
    /\ storeTopic \in StoreTopics
    /\ clock = 0 /\ storeOps = 0
    /\ sq = [agents |-> NoRows, memory |-> NoRows, jobs |-> NoRows, inbox |-> <<>>, members |-> NoRows,
             requests |-> NoRows, tasks |-> NoRows, runs |-> <<>>, rules |-> {}]
    /\ vo = [agents |-> NoRows, order |-> <<>>, memory |-> NoRows, jobs |-> NoRows, next_seq |-> 0,
             inbox |-> <<>>, members |-> NoRows, requests |-> NoRows, tasks |-> <<>>, runs |-> <<>>, rules |-> {}]
    /\ said = [call |-> "none", sqlite |-> <<>>, volatile |-> <<>>]

Present(rows) == {k \in StoreKeys : rows[k] # Absent}
\* ORDER BY a column, then the identifier.
Sorted(keys, col(_)) ==
    SetToSortSeq(keys, LAMBDA j, k : col(j) < col(k) \/ (col(j) = col(k) /\ j < k))

----------------------------------------------------------------------------
(* Agents. *)

sq_write_agent(k, v) ==
    [sq EXCEPT !.agents[k] = [value |-> v, at |-> IF @ = Absent THEN clock ELSE @.at]]

sq_write_agent_memory(s, k, v) == [s EXCEPT !.memory[k] = v]

sq_create_agent(k, v) == sq_write_agent_memory(sq_write_agent(k, v), k, v)

\* The agents that have rules of the session scope, which go with the agent.
sq_upsert_rule(k) == [sq EXCEPT !.rules = @ \union {k}]
sq_load_rules(k) == sq.rules \intersect {k}

sq_delete_agent(k) == [sq EXCEPT !.agents[k] = Absent, !.memory[k] = Absent, !.rules = @ \ {k}]

\* load_agent of each; one agent without memory fails the whole answer.
sq_load(ids) ==
    IF \E i \in DOMAIN ids : sq.memory[ids[i]] = Absent THEN Absent
    ELSE [i \in DOMAIN ids |-> [id |-> ids[i], value |-> <<sq.agents[ids[i]].value, sq.memory[ids[i]]>>,
                                at |-> sq.agents[ids[i]].at]]

sq_list_agents == sq_load(Sorted(Present(sq.agents), LAMBDA k : sq.agents[k].at))

RuntimeOf(k) == k % 2

sq_list_agents_by_runtime(r) ==
    sq_load(Sorted({k \in Present(sq.agents) : RuntimeOf(k) = r}, LAMBDA k : sq.agents[k].at))

vo_save_agent_record(k, v) ==
    [vo EXCEPT !.order = IF vo.agents[k] = Absent THEN Append(@, k) ELSE @, !.agents[k] = [value |-> v]]

vo_save_agent_memory(s, k, v) == [s EXCEPT !.memory[k] = v]

vo_create_agent(k, v) == vo_save_agent_memory(vo_save_agent_record(k, v), k, v)

vo_upsert_rule(k) == [vo EXCEPT !.rules = @ \union {k}]
vo_load_rules(k) == vo.rules \intersect {k}

vo_delete_agent(k) ==
    [vo EXCEPT !.agents[k] = Absent, !.memory[k] = Absent, !.order = SelectSeq(@, LAMBDA j : j # k),
               !.rules = @ \ {k}]

\* created_at is None.
vo_load_agent(k) == [id |-> k, value |-> <<vo.agents[k].value, vo.memory[k]>>, at |-> Absent]

vo_list_agents ==
    IF \E i \in DOMAIN vo.order : vo.agents[vo.order[i]] = Absent \/ vo.memory[vo.order[i]] = Absent THEN Absent
    ELSE [i \in DOMAIN vo.order |-> vo_load_agent(vo.order[i])]

vo_list_agents_by_runtime(r) ==
    IF vo_list_agents = Absent THEN Absent ELSE SelectSeq(vo_list_agents, LAMBDA l : RuntimeOf(l.id) = r)

----------------------------------------------------------------------------
(* Background jobs. *)

sq_upsert_background_task(k, v, n) ==
    [sq EXCEPT !.jobs[k] = [value |-> v, notify |-> n, created |-> IF @ = Absent THEN clock ELSE @.created,
                            at |-> clock]]

\* What SQLite tells of its rows, beside the second it sorted them by.
Told(rows, ids) == [i \in DOMAIN ids |-> [id |-> ids[i], value |-> rows[ids[i]].value, at |-> rows[ids[i]].at]]
Waiting(rows, states) == {k \in Present(rows) : rows[k].notify \in states}
Settled(rows, from, to) ==
    [k \in StoreKeys |-> IF rows[k] # Absent /\ rows[k].notify = from THEN [rows[k] EXCEPT !.notify = to] ELSE rows[k]]

sq_load_background_tasks == Told(sq.jobs, Sorted(Present(sq.jobs), LAMBDA k : sq.jobs[k].created))
sq_pending_jobs == Told(sq.jobs, Sorted(Waiting(sq.jobs, {"pending"}), LAMBDA k : sq.jobs[k].at))
sq_drain_background_notifications == [sq EXCEPT !.jobs = Settled(@, "pending", "inflight")]
sq_ack_background_notifications == [sq EXCEPT !.jobs = Settled(@, "inflight", "acked")]
sq_requeue_background_notifications == [sq EXCEPT !.jobs = Settled(@, "inflight", "pending")]
sq_has_pending_background_notifications == Waiting(sq.jobs, {"pending", "inflight"}) # {}
sq_has_deliverable_background_notifications == Waiting(sq.jobs, {"pending"}) # {}

\* next_seq stands for updated_at.
vo_upsert_background_task(k, v, n) ==
    [vo EXCEPT !.next_seq = @ + 1,
               !.jobs[k] = [value |-> v, notify |-> n, updated_seq |-> vo.next_seq + 1]]

Untimed(rows, ids) == [i \in DOMAIN ids |-> [id |-> ids[i], value |-> rows[ids[i]].value, at |-> Absent]]

\* Draining in the order of the identifiers alone.
vo_pending_jobs_ById == Untimed(vo.jobs, Sorted(Waiting(vo.jobs, {"pending"}), LAMBDA k : k))

vo_load_background_tasks == Untimed(vo.jobs, Sorted(Present(vo.jobs), LAMBDA k : k))
vo_pending_jobs == Untimed(vo.jobs, Sorted(Waiting(vo.jobs, {"pending"}), LAMBDA k : vo.jobs[k].updated_seq))
vo_drain_background_notifications == [vo EXCEPT !.jobs = Settled(@, "pending", "inflight")]
vo_ack_background_notifications == [vo EXCEPT !.jobs = Settled(@, "inflight", "acked")]
vo_requeue_background_notifications == [vo EXCEPT !.jobs = Settled(@, "inflight", "pending")]
vo_has_pending_background_notifications == Waiting(vo.jobs, {"pending", "inflight"}) # {}
vo_has_deliverable_background_notifications == Waiting(vo.jobs, {"pending"}) # {}

----------------------------------------------------------------------------
(* The team: letters, members, requests. *)

Letters(box, k) == SelectSeq(box, LAMBDA l : l.to = k /\ l.state = "pending")
Delivered(box, k, from, to) ==
    [i \in DOMAIN box |-> IF box[i].to = k /\ box[i].state = from THEN [box[i] EXCEPT !.state = to] ELSE box[i]]
PostedLetter(box, k, v) == Append(box, [to |-> k, value |-> v, state |-> "pending"])

\* next_id grows with every letter, so rows come back in the order of their
\* insertion.
sq_append_team_message(k, v) == [sq EXCEPT !.inbox = PostedLetter(@, k, v)]
sq_read_team_inbox(k) == [sq EXCEPT !.inbox = Delivered(@, k, "pending", "inflight")]
sq_ack_team_inbox(k) == [sq EXCEPT !.inbox = Delivered(@, k, "inflight", "acked")]
sq_requeue_team_inbox(k) == [sq EXCEPT !.inbox = Delivered(@, k, "inflight", "pending")]
sq_unread_team_count(k) == Len(Letters(sq.inbox, k))
sq_upsert_team_member(k, v) == [sq EXCEPT !.members[k] = v]
sq_load_team_members == [i \in 1..Len(SetToSortSeq(Present(sq.members), <)) |->
                            sq.members[SetToSortSeq(Present(sq.members), <)[i]]]
\* created_at belongs to the request and is written once.
sq_upsert_team_request(k, v) ==
    [sq EXCEPT !.requests[k] = [value |-> v, at |-> IF @ = Absent THEN clock ELSE @.at]]
sq_load_team_requests == Told(sq.requests, Sorted(Present(sq.requests), LAMBDA k : sq.requests[k].at))
sq_list_team_agent_names == SetToSortSeq(Present(sq.agents), <)

vo_append_team_message(k, v) == [vo EXCEPT !.inbox = PostedLetter(@, k, v)]

vo_read_team_inbox(k) == [vo EXCEPT !.inbox = Delivered(@, k, "pending", "inflight")]
vo_ack_team_inbox(k) == [vo EXCEPT !.inbox = Delivered(@, k, "inflight", "acked")]
vo_requeue_team_inbox(k) == [vo EXCEPT !.inbox = Delivered(@, k, "inflight", "pending")]
vo_unread_team_count(k) == Len(Letters(vo.inbox, k))
vo_upsert_team_member(k, v) == [vo EXCEPT !.members[k] = v]
vo_load_team_members == [i \in 1..Len(SetToSortSeq(Present(vo.members), <)) |->
                            vo.members[SetToSortSeq(Present(vo.members), <)[i]]]
\* The payload carries its created_at.
vo_upsert_team_request(k, v) ==
    [vo EXCEPT !.requests[k] = [value |-> v, at |-> IF @ = Absent THEN clock ELSE @.at]]
vo_load_team_requests == Told(vo.requests, Sorted(Present(vo.requests), LAMBDA k : vo.requests[k].at))
vo_list_team_agent_names == SortSeq(vo.order, <)

----------------------------------------------------------------------------
(* Tasks and runs.  A task list is in the order of its identifiers, as the *)
(* task board appends them.                                                *)

\* A task is added, or every task is done.
Edited(how, list) ==
    IF how = "add" THEN Append(list, [id |-> Len(list) + 1, value |-> "open"])
    ELSE [i \in DOMAIN list |-> [list[i] EXCEPT !.value = "done"]]

sq_replace_tasks(list) ==
    [sq EXCEPT !.tasks = [k \in StoreKeys |-> IF \E i \in DOMAIN list : list[i].id = k
                                              THEN list[CHOOSE i \in DOMAIN list : list[i].id = k] ELSE Absent]]
sq_load_tasks == LET ids == SetToSortSeq(Present(sq.tasks), <) IN [i \in DOMAIN ids |-> sq.tasks[ids[i]]]
\* The mutation may fail: the transaction is then dropped.
sq_mutate(how, ok) == IF ok THEN sq_replace_tasks(Edited(how, sq_load_tasks)) ELSE sq
sq_start_run == [sq EXCEPT !.runs = Append(@, "running")]
sq_update_run_state(r, s) == IF r \in DOMAIN sq.runs THEN [sq EXCEPT !.runs[r] = s] ELSE sq

vo_replace_tasks(list) == [vo EXCEPT !.tasks = list]
vo_load_tasks == vo.tasks
vo_mutate(how, ok) == IF ok THEN vo_replace_tasks(Edited(how, vo_load_tasks)) ELSE vo
vo_start_run == [vo EXCEPT !.runs = Append(@, "running")]
vo_update_run_state(r, s) == IF r \in DOMAIN vo.runs THEN [vo EXCEPT !.runs[r] = s] ELSE vo

----------------------------------------------------------------------------
(* One call on both stores. *)

Asked(topic, call, s, v, s_answer, v_answer) ==
    /\ storeTopic = topic /\ storeOps < MaxStoreOps
    /\ storeOps' = storeOps + 1
    /\ sq' = s /\ vo' = v
    /\ said' = [call |-> call, sqlite |-> s_answer, volatile |-> v_answer]
    /\ UNCHANGED <<storeTopic, clock>>
Both(topic, s, v, s_answer, v_answer) == Asked(topic, "any", s, v, s_answer, v_answer)
Silent(topic, s, v) == Both(topic, s, v, <<>>, <<>>)
Query(topic, s_answer, v_answer) == Both(topic, sq, vo, s_answer, v_answer)

AgentCall ==
    \/ \E k \in StoreKeys, v \in Versions :
          \/ Silent("agents", sq_create_agent(k, v), vo_create_agent(k, v))
          \/ Silent("agents", sq_write_agent(k, v), vo_save_agent_record(k, v))
          \/ Silent("agents", sq_write_agent_memory(sq, k, v), vo_save_agent_memory(vo, k, v))
    \/ \E k \in StoreKeys :
          \/ Silent("agents", sq_upsert_rule(k), vo_upsert_rule(k))
          \/ Silent("agents", sq_delete_agent(k), vo_delete_agent(k))
          \/ Asked("agents", "load_rules", sq, vo, sq_load_rules(k), vo_load_rules(k))
    \/ Query("agents", sq_list_agents, vo_list_agents)
    \/ Query("agents", sq_list_team_agent_names, vo_list_team_agent_names)
    \/ \E r \in {0, 1} : Query("agents", sq_list_agents_by_runtime(r), vo_list_agents_by_runtime(r))

\* A job is written as it starts (nothing to tell) and as it ends; jobs start
\* in any order of their identifiers.
JobCall ==
    \/ \E k \in StoreKeys, n \in {"pending", "acked"} :
          /\ n = "acked" => sq.jobs[k] = Absent
          /\ n = "pending" => sq.jobs[k] # Absent /\ sq.jobs[k].value = "running"
          /\ LET v == IF n = "acked" THEN "running" ELSE "finished"
             IN  Silent("jobs", sq_upsert_background_task(k, v, n), vo_upsert_background_task(k, v, n))
    \/ Both("jobs", sq_drain_background_notifications, vo_drain_background_notifications,
            sq_pending_jobs, vo_pending_jobs)
    \/ Silent("jobs", sq_ack_background_notifications, vo_ack_background_notifications)
    \/ Silent("jobs", sq_requeue_background_notifications, vo_requeue_background_notifications)
    \/ Query("jobs", <<sq_has_pending_background_notifications, sq_has_deliverable_background_notifications>>,
                     <<vo_has_pending_background_notifications, vo_has_deliverable_background_notifications>>)
    \/ Asked("jobs", "load_background_tasks", sq, vo, sq_load_background_tasks, vo_load_background_tasks)

TeamCall ==
    \/ \E k \in StoreKeys, v \in Versions :
          \/ Silent("team", sq_append_team_message(k, v), vo_append_team_message(k, v))
          \/ Silent("members", sq_upsert_team_member(k, v), vo_upsert_team_member(k, v))
          \/ Silent("members", sq_upsert_team_request(k, v), vo_upsert_team_request(k, v))
    \/ \E k \in StoreKeys :
          \/ Both("team", sq_read_team_inbox(k), vo_read_team_inbox(k), Letters(sq.inbox, k), Letters(vo.inbox, k))
          \/ Silent("team", sq_ack_team_inbox(k), vo_ack_team_inbox(k))
          \/ Silent("team", sq_requeue_team_inbox(k), vo_requeue_team_inbox(k))
          \/ Query("team", sq_unread_team_count(k), vo_unread_team_count(k))
    \/ Query("members", sq_load_team_members, vo_load_team_members)
    \/ Query("members", sq_load_team_requests, vo_load_team_requests)

TaskCall ==
    \/ \E ok \in BOOLEAN :
          \/ Len(vo.tasks) + 1 \in StoreKeys /\ Silent("tasks", sq_mutate("add", ok), vo_mutate("add", ok))
          \/ Silent("tasks", sq_mutate("finish", ok), vo_mutate("finish", ok))
    \/ Silent("tasks", sq_replace_tasks(<<>>), vo_replace_tasks(<<>>))
    \/ Query("tasks", sq_load_tasks, vo_load_tasks)
    \/ Silent("tasks", sq_start_run, vo_start_run)
    \/ \E r \in 1..2, s \in {"finished", "failed"} :
          Both("tasks", sq_update_run_state(r, s), vo_update_run_state(r, s), sq.runs, vo.runs)

\* now_secs; the volatile store has no clock.
SecondPasses ==
    /\ clock < MaxClock /\ clock' = clock + 1
    /\ UNCHANGED <<storeTopic, sq, vo, said, storeOps>>

ParityNext == AgentCall \/ JobCall \/ TeamCall \/ TaskCall \/ SecondPasses

ParitySpec == ParityInit /\ [][ParityNext]_parityVars

----------------------------------------------------------------------------

\* The same things, in an order that differs only among those to which SQLite
\* gave one second.
Rows(answer) == {<<answer[i].id, answer[i].value>> : i \in DOMAIN answer}
SameRows(a, b) == Len(a) = Len(b) /\ Rows(a) = Rows(b)
SameUpToSeconds(a, b) ==
    /\ SameRows(a, b)
    /\ \A i \in DOMAIN a, j \in DOMAIN a : a[j].id = b[i].id => a[j].at = a[i].at

EveryAgentHasMemory == Present(sq.agents) \subseteq Present(sq.memory)
JobsSortAsCreated ==
    \A j \in Present(sq.jobs), k \in Present(sq.jobs) : j < k => sq.jobs[j].created <= sq.jobs[k].created

(* Whatever was called before, both stores answer alike ("mirroring the    *)
(* default store's `background_jobs` table", volatile_store/background.rs, *)
(* and likewise for the others): the same rows with the same contents, in  *)
(* the same order up to things SQLite gave one second.  Three differences  *)
(* are the code's own and excepted here.  The volatile store keeps no      *)
(* timestamps (None).  It lists jobs by identifier and SQLite by second of *)
(* creation, so the orders of load_background_tasks agree only while the   *)
(* identifiers sort as the jobs were created, which "bg-10" and "bg-2" do  *)
(* not.  And an agent's record without its memory fails every listing of   *)
(* the volatile store, and only its own runtime's in SQLite.               *)
StoresAnswerAlike ==
    \/ said.sqlite = said.volatile
    \/ ~EveryAgentHasMemory
    \/ /\ said.volatile # Absent /\ said.call # "load_rules"
       /\ IF said.call = "load_background_tasks"
          THEN SameRows(said.sqlite, said.volatile)
               /\ (JobsSortAsCreated => \A i \in DOMAIN said.sqlite : said.sqlite[i].id = said.volatile[i].id)
          ELSE SameUpToSeconds(said.sqlite, said.volatile)

----------------------------------------------------------------------------
(***************************************************************************)
(* Long-term memory: the memory engine, which every finished run feeds     *)
(* from a task of its own, the record stores behind it (SQLite, the        *)
(* hybrid SQLite store and the volatile one), the memory tools and the     *)
(* recall that goes into a request.                                        *)
(*                                                                         *)
(* A text is the set of its words.  An ingest is followed to its end: it   *)
(* reads the agent's cursor, writes one episode record and then moves the  *)
(* cursor, three separate calls of the store, any of which may fail, and   *)
(* several ingests of one agent can be under way at once.                  *)
(***************************************************************************)
CONSTANTS MemoryAgents,   \* agents of the runtime
          Words,          \* the words of texts and queries
          Inside,         \* pairs of words, the first a part of the second
          MemoryStores,   \* the kinds of store a behaviour may run on
          MaxRevision,    \* bound: the revision each agent's memory reaches
          MaxFacts,       \* bound: facts each agent pins
          MaxFailures     \* bound: failed store calls and process deaths

VARIABLES backend,    \* the kind of store behind the engine
          rows,       \* records by id
          index,      \* the full-text index: id, agent and words
          cursor,     \* last_ingested_revision of each agent
          revision,   \* the revision each agent's memory has reached
          ingests,    \* ingests by agent and revision
          pins,       \* now_nanos of the latest pin of each agent
          failures,
          kept        \* history: the ids stored and not forgotten since

memoryVars == <<backend, rows, index, cursor, revision, ingests, pins, failures, kept>>

Texts == SUBSET Words

RecordKinds == {"episode", "summary", "fact"}

\* "episode:{agent}:{revision}", "summary:{agent}:{revision}" and
\* "fact:{agent}:manual:{nanos}".
RecordIds ==
    UNION {{<<kind, a, n>> : kind \in RecordKinds, n \in 1..(MaxRevision[a] + MaxFacts[a])} :
           a \in MemoryAgents}

MemoryRecord == [agent : MemoryAgents, kind : RecordKinds, words : Texts, pinned : BOOLEAN,
                 forgotten : BOOLEAN]

\* Where an ingest is, and how it ended.
IngestStates == {"load", "upsert", "save", "stored", "skipped", "failed"}

MemoryTypeOK ==
    /\ backend \in MemoryStores
    /\ DOMAIN rows \subseteq RecordIds
    /\ \A id \in DOMAIN rows : rows[id] \in MemoryRecord
    /\ index \subseteq (RecordIds \X MemoryAgents \X Texts)
    /\ \A a \in MemoryAgents : /\ cursor[a] \in 0..revision[a]
                               /\ revision[a] \in 0..MaxRevision[a]
                               /\ pins[a] \in 0..MaxFacts[a]
    /\ \A run \in DOMAIN ingests :
          ingests[run] \in [words : Texts, at : IngestStates]
    /\ failures \in 0..MaxFailures
    /\ kept \subseteq RecordIds

MemoryInit ==
    /\ backend \in MemoryStores
    /\ rows = <<>>
    /\ index = {}
    /\ cursor = [a \in MemoryAgents |-> 0]
    /\ revision = [a \in MemoryAgents |-> 0]
    /\ ingests = <<>>
    /\ pins = [a \in MemoryAgents |-> 0]
    /\ failures = 0
    /\ kept = {}

---------------------------------------------------------------------------
(* The stores.  The index belongs to the two SQLite stores.                *)

\* The table without a row.
WithoutRecord(id) == [other \in (DOMAIN rows) \ {id} |-> rows[other]]

\* The table with a row added or replaced.
With(id, record) == [other \in (DOMAIN rows) \cup {id} |->
                        IF other = id THEN record ELSE rows[other]]

\* The index without the entries of a record.
Unindexed(id) == {entry \in index : entry[1] # id}

\* SqliteHybridMemoryStore: the row is replaced whole, a tombstone on it
\* included, and its index entry with it.
upsert_hybrid(id, record) ==
    /\ rows' = With(id, record)
    /\ index' = Unindexed(id) \cup {<<id, record.agent, record.words>>}

\* SqliteRuntimeStore has no columns for the pin and the source.
upsert_sqlite(id, record) ==
    /\ rows' = With(id, [record EXCEPT !.pinned = FALSE])
    /\ index' = Unindexed(id) \cup {<<id, record.agent, record.words>>}

upsert_volatile(id, record) ==
    /\ rows' = With(id, record)
    /\ UNCHANGED index

upsert_records(id, record) ==
    /\ CASE backend = "hybrid"   -> upsert_hybrid(id, record)
         [] backend = "sqlite"   -> upsert_sqlite(id, record)
         [] backend = "volatile" -> upsert_volatile(id, record)
    /\ kept' = kept \cup {id}

\* The hybrid store tombstones a live row of the agent and takes it out of
\* the index; a row of another agent is left alone.
tombstone_hybrid(a, id) ==
    IF id \in DOMAIN rows /\ rows[id].agent = a /\ ~rows[id].forgotten
    THEN rows' = [rows EXCEPT ![id].forgotten = TRUE] /\ index' = Unindexed(id)
    ELSE UNCHANGED <<rows, index>>

\* SqliteRuntimeStore deletes the index entry of the id first and then the
\* row, which alone is restricted to the agent.
tombstone_sqlite(a, id) ==
    /\ index' = Unindexed(id)
    /\ rows' = IF id \in DOMAIN rows /\ rows[id].agent = a THEN WithoutRecord(id) ELSE rows

tombstone_volatile(a, id) ==
    /\ rows' = IF id \in DOMAIN rows /\ rows[id].agent = a THEN WithoutRecord(id) ELSE rows
    /\ UNCHANGED index

tombstone_records(a, id) ==
    /\ CASE backend = "hybrid"   -> tombstone_hybrid(a, id)
         [] backend = "sqlite"   -> tombstone_sqlite(a, id)
         [] backend = "volatile" -> tombstone_volatile(a, id)
    /\ kept' = IF id[2] = a THEN kept \ {id} ELSE kept

\* fts_query joins the words of a query by OR; a query of no words finds
\* nothing.
search_hybrid(a, query) ==
    {id \in DOMAIN rows : /\ ~rows[id].forgotten
                          /\ \E entry \in index : /\ entry[1] = id
                                                  /\ entry[2] = a
                                                  /\ entry[3] \cap query # {}}

search_sqlite(a, query) ==
    {id \in DOMAIN rows : \E entry \in index : /\ entry[1] = id
                                               /\ entry[2] = a
                                               /\ entry[3] \cap query # {}}

\* The volatile store looks for each word anywhere in the text, inside a
\* longer word too.
search_volatile(a, query) ==
    {id \in DOMAIN rows : /\ rows[id].agent = a
                          /\ \E w \in query, v \in rows[id].words :
                                w = v \/ <<w, v>> \in Inside}

\* What a search can return, before it is ranked and cut to its limit.
search_records_with_options(a, query) ==
    CASE backend = "hybrid"   -> search_hybrid(a, query)
      [] backend = "sqlite"   -> search_sqlite(a, query)
      [] backend = "volatile" -> search_volatile(a, query)

---------------------------------------------------------------------------
(* The engine.                                                             *)

Record(kind, a, words) ==
    [agent |-> a, kind |-> kind, words |-> words, pinned |-> kind = "fact",
     forgotten |-> FALSE]

Move(run, at) == ingests' = [ingests EXCEPT ![run].at = at]

\* message_to_lines keeps texts, calls, results and the fact that there was
\* an image; a run of nothing else is an episode of no words.
summarize_episode(delta) == delta

\* A run finished: its memory is saved under a new revision, and its delta
\* is handed to a spawned ingest.
schedule_ingest(a, delta) ==
    /\ revision[a] < MaxRevision[a]
    /\ revision' = [revision EXCEPT ![a] = @ + 1]
    /\ ingests' = [run \in (DOMAIN ingests) \cup {<<a, revision[a] + 1>>} |->
                      IF run = <<a, revision[a] + 1>>
                      THEN [words |-> summarize_episode(delta), at |-> "load"]
                      ELSE ingests[run]]
    /\ UNCHANGED <<backend, rows, index, cursor, pins, failures, kept>>

\* load_agent_memory_cursor: a revision the cursor has reached is skipped;
\* an empty episode only moves the cursor.
IngestLoad(run) ==
    /\ ingests[run].at = "load"
    /\ Move(run, IF cursor[run[1]] >= run[2] THEN "skipped"
                 ELSE IF ingests[run].words = {} THEN "save"
                 ELSE "upsert")
    /\ UNCHANGED <<backend, rows, index, cursor, revision, pins, failures, kept>>

IngestUpsert(run) ==
    /\ ingests[run].at = "upsert"
    /\ upsert_records(<<"episode", run[1], run[2]>>,
                      Record("episode", run[1], ingests[run].words))
    /\ Move(run, "save")
    /\ UNCHANGED <<backend, cursor, revision, pins, failures>>

\* IngestSave that moves the cursor to where the agent is by now.
IngestSave_Latest(run) ==
    /\ ingests[run].at = "save"
    /\ cursor' = [cursor EXCEPT ![run[1]] = revision[run[1]]]
    /\ Move(run, "stored")
    /\ UNCHANGED <<backend, rows, index, revision, pins, failures, kept>>

\* save_agent_memory_cursor writes the revision whatever the cursor is now.
IngestSave(run) ==
    /\ ingests[run].at = "save"
    /\ cursor' = [cursor EXCEPT ![run[1]] = run[2]]
    /\ Move(run, "stored")
    /\ UNCHANGED <<backend, rows, index, revision, pins, failures, kept>>

\* A call of the store fails: the ingest reports it and ends.
IngestFails(run) ==
    /\ failures < MaxFailures
    /\ ingests[run].at \in {"load", "upsert", "save"}
    /\ Move(run, "failed")
    /\ failures' = failures + 1
    /\ UNCHANGED <<backend, rows, index, cursor, revision, pins, kept>>

\* A compaction was applied, which took a new revision; its summary is
\* stored at once, and a store that cannot take it changes nothing else.
store_compaction_summary(a, words, taken) ==
    /\ revision[a] < MaxRevision[a]
    /\ revision' = [revision EXCEPT ![a] = @ + 1]
    /\ IF taken
       THEN upsert_records(<<"summary", a, revision[a] + 1>>, Record("summary", a, words))
       ELSE UNCHANGED <<rows, index, kept>>
    /\ UNCHANGED <<backend, cursor, ingests, pins, failures>>

\* The memory_pin tool: content that is empty once trimmed is refused, and
\* the id holds the clock.
pin(a, words) ==
    /\ words # {}
    /\ pins[a] < MaxFacts[a]
    /\ pins' = [pins EXCEPT ![a] = @ + 1]
    /\ upsert_records(<<"fact", a, pins[a] + 1>>, Record("fact", a, words))
    /\ UNCHANGED <<backend, cursor, revision, ingests, failures>>

\* The memory_forget tool: any record id may be named, the agent's or not.
forget(a, id) ==
    /\ tombstone_records(a, id)
    /\ UNCHANGED <<backend, cursor, revision, ingests, pins, failures>>

\* The process ends with ingests under way; the SQLite files stay.
MemoryCrash ==
    /\ backend # "volatile"
    /\ failures < MaxFailures
    /\ \E run \in DOMAIN ingests : ingests[run].at \in {"load", "upsert", "save"}
    /\ ingests' = [run \in DOMAIN ingests |->
                      IF ingests[run].at \in {"load", "upsert", "save"}
                      THEN [ingests[run] EXCEPT !.at = "failed"]
                      ELSE ingests[run]]
    /\ failures' = failures + 1
    /\ UNCHANGED <<backend, rows, index, cursor, revision, pins, kept>>

MemoryNext ==
    \/ \E a \in MemoryAgents, words \in Texts :
          \/ schedule_ingest(a, words)
          \/ \E taken \in BOOLEAN : words # {} /\ store_compaction_summary(a, words, taken)
          \/ pin(a, words)
    \/ \E run \in DOMAIN ingests :
          IngestLoad(run) \/ IngestUpsert(run) \/ IngestSave(run) \/ IngestFails(run)
    \/ \E a \in MemoryAgents, id \in DOMAIN rows : forget(a, id)
    \/ MemoryCrash

MemorySpec == MemoryInit /\ [][MemoryNext]_memoryVars

---------------------------------------------------------------------------
(* Recall: what a search's hits become in a request.                       *)

\* The bytes of a hit's content, and of the note on why it was found; the
\* label is the rest of the line ("[fact rev=.. source=.. why=..] ").
HitBytes(id) == Cardinality(rows[id].words)

WhyBytes(id) == IF rows[id].kind = "episode" THEN 1 ELSE 2

LabelBytes == 1

\* The longest prefix whose bytes stay within the budget, its first entry
\* always among them: both cuts of the recall are loops of this shape.
Within(entries, bytes(_), budget) ==
    LET fits == {n \in 0..Len(entries) :
                    \A m \in 2..n :
                       FoldFunction(+, 0, [i \in 1..m |-> bytes(entries[i])]) <= budget}
    IN  SubSeq(entries, 1, CHOOSE n \in fits : \A m \in fits : m <= n)

\* trim_hits_to_char_budget.
trim_hits(hits, budget) ==
    IF budget = 0 THEN <<>>
    ELSE Within(hits, LAMBDA id : HitBytes(id) + WhyBytes(id), budget)

\* recalled_memory_message: a line for each hit, one more byte for the line
\* break before every line but the first.
recalled_lines(hits, budget) ==
    Within(hits, LAMBDA id : LabelBytes + HitBytes(id) + WhyBytes(id) + (IF id = hits[1] THEN 0 ELSE 1),
           budget)

\* What a turn recalls: the records found in one of the orders the ranking
\* may give them, cut to the limit, then to the budget twice.
recalled(a, query, order, limit, budget) ==
    LET found == SelectSeq(order, LAMBDA id : id \in search_records_with_options(a, query))
        hits  == SubSeq(found, 1, IF Len(found) < limit THEN Len(found) ELSE limit)
    IN  recalled_lines(trim_hits(hits, budget), budget)

Bytes(lines) == FoldFunction(+, Len(lines) - 1,
                             [i \in DOMAIN lines |-> LabelBytes + HitBytes(lines[i]) + WhyBytes(lines[i])])

---------------------------------------------------------------------------
(* Properties.                                                             *)

\* What a turn recalls stays within its budget, one line always excepted,
\* and is made of records the agent stored and has not forgotten.
RecallIsBounded ==
    \A a \in MemoryAgents, budget \in 0..8, limit \in 0..2 :
        \A order \in {SetToSeq(DOMAIN rows), Reverse(SetToSeq(DOMAIN rows))} :
            LET lines == recalled(a, Words, order, limit, budget)
            IN  /\ Len(lines) <= limit
                /\ Len(lines) > 1 => Bytes(lines) <= budget
                /\ \A i \in DOMAIN lines : lines[i] \in kept /\ lines[i][2] = a

\* What an agent finds is exactly what was stored for it and what it has not
\* forgotten itself: no record comes back once it was forgotten, however
\* ingests, compactions, pins and crashes interleave with the forgetting,
\* and naming a record of another agent does not take it from that agent.
ForgettingIsOnesOwn ==
    \A a \in MemoryAgents :
        {id \in kept : id[2] = a /\ rows[id].words # {}} = search_records_with_options(a, Words)

\* A run's episode is left out only when its own ingest failed or when the
\* ingest of a later run of that agent overtook it and moved the cursor past
\* it; every other episode that ended is in the store or was forgotten since.
OnlyOvertakenIsSkipped ==
    \A run \in DOMAIN ingests :
        ingests[run].at = "skipped" =>
            \E later \in DOMAIN ingests :
                /\ later[1] = run[1]
                /\ later[2] > run[2]
                /\ ingests[later].at = "stored"
=============================================================================
