------------------------------ MODULE FileStore ------------------------------
(***************************************************************************)
(* The directory FileRuntimeStore keeps for one agent (agent.json,         *)
(* state.json, transcript.jsonl, leaf), the session's rows of rules.json   *)
(* and the agent's lease, used by the runtimes of one or more processes.   *)
(* Every write can fail, and every process can die, at every point where   *)
(* the code touches the disk; an append that is cut short leaves any prefix*)
(* of its lines and a last line without its newline.                       *)
(*                                                                         *)
(* A transcript entry is its id: what the log holds under an id is never   *)
(* rewritten.  A memory is the entries it names, the entries of the        *)
(* baseline it would roll back to, and whether a run is open.              *)
(***************************************************************************)
EXTENDS Naturals, FiniteSets, FiniteSetsExt

CONSTANTS Runtimes,     \* processes, each with a store on the same root
          None,         \* Option::None
          Contended,    \* an agent may be resumed or deleted while it is live
          MaxEntries,   \* bound: transcript entries ever written
          MaxRecords,   \* bound: versions of the agent's record
          MaxTroubles   \* bound: failed writes and processes that die

ASSUME StoreAssumption ==
    /\ IsFiniteSet(Runtimes) /\ None \notin Runtimes
    /\ Contended \in BOOLEAN
    /\ MaxEntries \in Nat /\ MaxRecords \in Nat \ {0} /\ MaxTroubles \in Nat

VARIABLES files,     \* the agent's directory
          rules,     \* rules.json holds rows of the agent's session
          lease,     \* who holds the lock on the agent's lease file
          procs,     \* what each process holds in memory
          calls,     \* the store operation each process is in
          fresh,     \* the next entry id
          troubles

vars == <<files, rules, lease, procs, calls, fresh, troubles>>

Ids == 1..MaxEntries

\* AgentMemoryState, and what saves of it can follow each other.
MemoryState == [entries : SUBSET Ids, base : SUBSET Ids, run : BOOLEAN]
NewMemory == [entries |-> {}, base |-> {}, run |-> FALSE]

\* Option::None is no memory and no stored agent.
ASSUME NoneAssumption ==
    None \notin MemoryState \union [record : 1..MaxRecords, memory : MemoryState \union {None}]

entries_of(m) == m.entries \union m.base
leaf(m) == IF m.entries = {} THEN None ELSE Max(m.entries)

\* An entry appended, a run begun, settled or rolled back, a compaction.
Successors(m) ==
    LET grown == IF fresh \in Ids THEN {m.entries \union {fresh}} ELSE {}
        whole == IF fresh \in Ids /\ m.entries # {} THEN {{fresh}} ELSE {}
    IN  {[m EXCEPT !.entries = e] : e \in grown \union whole}
        \union {[entries |-> e, base |-> m.entries, run |-> TRUE] : e \in grown}
        \union {[entries |-> e, base |-> {}, run |-> FALSE] : e \in {m.entries, m.base}}

NeedsRecovery(m) == m.run

\* AgentMemory::recover: back to the baseline, or the turn closed, which
\* appends an answer when calls were open.
Recovered(m) ==
    {[entries |-> e, base |-> {}, run |-> FALSE] :
        e \in {m.base, m.entries}
              \union (IF fresh \in Ids THEN {m.entries \union {fresh}} ELSE {})}

-----------------------------------------------------------------------------
(* Reading the directory.                                                  *)

NoTail == [id |-> 0, whole |-> FALSE]
EmptyFiles == [lines |-> {}, tail |-> NoTail, junk |-> FALSE,
               state |-> None, leaf |-> None, record |-> 0]

\* Entries read_log finds: a last line without a newline counts if it parses.
read_log(f) == f.lines \union (IF f.tail.whole THEN {f.tail.id} ELSE {})

\* finish_load succeeds: a snapshot, and every entry it names in the log.
Loads(f) == f.state # None /\ ~f.junk /\ entries_of(f.state) \subseteq read_log(f)

\* load_agent: no agent without agent.json, no memory where it is an error.
load_agent(f) ==
    IF f.record = 0 THEN None
    ELSE [record |-> f.record, memory |-> IF Loads(f) THEN f.state ELSE None]

-----------------------------------------------------------------------------
(* What a process holds, and the operation it is in.                       *)

NoIndex == [loaded |-> FALSE, ids |-> {}]
NewProcess == [live |-> FALSE, next |-> "none", memory |-> NewMemory, record |-> 0, index |-> NoIndex]

\* The process no longer has the agent; its store still indexes the log.
Without(process) == [NewProcess EXCEPT !.index = process.index]

Contract == INSTANCE AgentStore WITH
                Clients <- Runtimes, stored <- load_agent(files),
                calls <- [p \in Runtimes |->
                    [kind |-> calls[p].kind, record |-> calls[p].record, memory |-> calls[p].memory,
                     done |-> calls[p].done, result |-> calls[p].result]]

Idle(result) ==
    [kind |-> "idle", record |-> 0, memory |-> None, step |-> "none", done |-> FALSE, result |-> result]

Call(kind, step, record, memory) ==
    [kind |-> kind, record |-> record, memory |-> memory, step |-> step, done |-> FALSE, result |-> "none"]

Init ==
    /\ files = EmptyFiles /\ rules = FALSE /\ lease = None
    /\ procs = [p \in Runtimes |-> NewProcess]
    /\ calls = [p \in Runtimes |-> Idle("none")]
    /\ fresh = 1 /\ troubles = 0

-----------------------------------------------------------------------------
(* How an operation goes on, ends, fails, or dies with its process.        *)

Goto(p, step) == calls' = [calls EXCEPT ![p].step = step]
Passed(p, step) == calls' = [calls EXCEPT ![p].step = step, ![p].done = TRUE]
Ended(p, result) == calls' = [calls EXCEPT ![p] = Idle(result)]

\* The process dies: its operation is cut off, its lease lock is released.
Die(p) ==
    /\ procs' = [procs EXCEPT ![p] = NewProcess]
    /\ calls' = IF calls[p].kind = "idle" THEN calls ELSE [calls EXCEPT ![p] = Idle("error")]
    /\ lease' = IF lease = p THEN None ELSE lease

\* The operation is handed an error, or its process dies, leaving files f.
Broken(p, f, index) ==
    /\ troubles < MaxTroubles
    /\ troubles' = troubles + 1
    /\ files' = f
    /\ UNCHANGED <<rules, fresh>>
    /\ \/ /\ Ended(p, "error")
          /\ procs' = [procs EXCEPT ![p] =
                 [(IF @.live THEN @ ELSE Without(@)) EXCEPT !.index = index]]
          /\ UNCHANGED lease
       \/ Die(p)

\* A write that replaces a file atomically: it is done, or it fails with the
\* old file or, when only the directory could not be synced, the new one.
atomic_replace(p, f, next) ==
    \/ /\ files' = f
       /\ next
       /\ UNCHANGED <<rules, lease, procs, fresh, troubles>>
    \/ Broken(p, files, procs[p].index)
    \/ Broken(p, f, procs[p].index)

-----------------------------------------------------------------------------
(* What the runtime asks of the store.                                     *)

Quiet(p) == ~procs[p].live /\ procs[p].next = "none" /\ calls[p].kind = "idle"

\* Nobody else has the agent, unless hosts do not coordinate.
Alone(others) == Contended \/ \A q \in others : Quiet(q)

\* Agent::new under an id nobody has used.
Spawn(p) ==
    /\ Quiet(p) /\ Alone(Runtimes)
    /\ files = EmptyFiles /\ ~rules /\ lease = None /\ fresh = 1
    /\ procs' = [procs EXCEPT ![p] = [NewProcess EXCEPT !.next = "lease", !.record = 1]]
    /\ calls' = [calls EXCEPT ![p] = Call("create", "append", 1, NewMemory)]
    /\ UNCHANGED <<files, rules, lease, fresh, troubles>>

\* AgentMemory::persist: the memory is changed before the store is asked.
Persist(p) ==
    /\ procs[p].live /\ calls[p].kind = "idle"
    /\ \E m \in Successors(procs[p].memory) :
           /\ procs' = [procs EXCEPT ![p].memory = m]
           /\ calls' = [calls EXCEPT ![p] = Call("memory", "append", 0, m)]
           /\ fresh' = IF fresh \in m.entries THEN fresh + 1 ELSE fresh
    /\ UNCHANGED <<files, rules, lease, troubles>>

persist_agent_record(p) ==
    /\ procs[p].live /\ calls[p].kind = "idle" /\ procs[p].record < MaxRecords
    /\ procs' = [procs EXCEPT ![p].record = @ + 1]
    /\ calls' = [calls EXCEPT ![p] = Call("record", "record", procs[p].record + 1, None)]
    /\ UNCHANGED <<files, rules, lease, fresh, troubles>>

\* A decision the user asked to remember for this session.
remember_rule(p) ==
    /\ procs[p].live /\ calls[p].kind = "idle" /\ ~rules
    /\ rules' = TRUE
    /\ UNCHANGED <<files, lease, procs, calls, fresh, troubles>>

\* Agent::from_loaded: the memory is recovered, and the recovery saved, before
\* register_agent asks for the lease.
Resume(p) ==
    /\ Quiet(p) /\ Alone(Runtimes \ {p})
    /\ files.record # 0 /\ Loads(files)
    /\ LET m == files.state
           process(next, memory) == [procs[p] EXCEPT !.next = next, !.memory = memory, !.record = files.record]
       IN  \/ /\ ~NeedsRecovery(m)
              /\ procs' = [procs EXCEPT ![p] = process("lease", m)]
              /\ UNCHANGED <<calls, fresh>>
           \/ /\ NeedsRecovery(m)
              /\ \E r \in Recovered(m) :
                     /\ procs' = [procs EXCEPT ![p] = process("record", r)]
                     /\ calls' = [calls EXCEPT ![p] = Call("memory", "append", 0, r)]
                     /\ fresh' = IF fresh \in r.entries THEN fresh + 1 ELSE fresh
    /\ UNCHANGED <<files, rules, lease, troubles>>

\* The record of a recovered agent says it was interrupted.
ResumeRecord(p) ==
    /\ procs[p].next = "record" /\ calls[p].kind = "idle"
    /\ procs' = [procs EXCEPT ![p].next = "lease"]
    /\ calls' = [calls EXCEPT ![p] = Call("record", "record", procs[p].record, None)]
    /\ UNCHANGED <<files, rules, lease, fresh, troubles>>

\* register_agent: a lease anyone holds, this process included, is refused.
acquire_lease(p) ==
    /\ procs[p].next = "lease" /\ calls[p].kind = "idle"
    /\ procs' = [procs EXCEPT ![p] =
           IF lease = None THEN [@ EXCEPT !.next = "none", !.live = TRUE] ELSE Without(@)]
    /\ lease' = IF lease = None THEN p ELSE lease
    /\ UNCHANGED <<files, rules, calls, fresh, troubles>>

\* The host drops the agent, or the whole runtime, which releases the lease.
DropAgent(p) ==
    /\ procs[p].live /\ calls[p].kind = "idle"
    /\ procs' = [procs EXCEPT ![p] = Without(@)]
    /\ UNCHANGED <<files, rules, lease, calls, fresh, troubles>>

DropRuntime(p) ==
    /\ calls[p].kind = "idle" /\ procs[p].next = "none" /\ procs[p] # NewProcess
    /\ procs' = [procs EXCEPT ![p] = NewProcess]
    /\ lease' = IF lease = p THEN None ELSE lease
    /\ UNCHANGED <<files, rules, calls, fresh, troubles>>

Crash(p) ==
    /\ troubles < MaxTroubles
    /\ troubles' = troubles + 1
    /\ procs[p] # NewProcess \/ calls[p].kind # "idle"
    /\ Die(p)
    /\ UNCHANGED <<files, rules, fresh>>

\* Runtime::delete_agent, of an agent that is there or a delete tried again;
\* the store first forgets what it knew of the log.
delete_agent(p) ==
    /\ Quiet(p) /\ Alone(Runtimes)
    /\ files # EmptyFiles \/ rules
    /\ procs' = [procs EXCEPT ![p].index = NoIndex]
    /\ calls' = [calls EXCEPT ![p] = Call("delete", "unlink", 0, None)]
    /\ UNCHANGED <<files, rules, lease, fresh, troubles>>

-----------------------------------------------------------------------------
(* The steps of an operation, one for each place it touches the disk.      *)

At(p, step) == calls[p].kind # "idle" /\ calls[p].step = step

\* A line cut short by an earlier append goes before anything is written.
drop_truncated_tail_Defect(f) == [f EXCEPT !.tail = NoTail, !.junk = @ \/ f.tail.id # 0]
drop_truncated_tail(f) == [f EXCEPT !.tail = NoTail]

\* The index learns of lines only when all of them are written and synced.
extended_Defect(known, pending, written) == known \union pending
extended(known, pending, written) == IF written THEN known \union pending ELSE known

\* append_missing: the index is read from the log on first use; an append cut
\* short leaves some of its lines, and of one more its start or all of it but
\* the newline.
append_missing(p) ==
    /\ At(p, "append")
    /\ LET known == IF procs[p].index.loaded THEN procs[p].index.ids ELSE read_log(files)
           missing == entries_of(calls[p].memory) \ known
           clean == drop_truncated_tail(files)
           index(written) == [loaded |-> TRUE, ids |-> extended(known, missing, written)]
       IN  IF ~procs[p].index.loaded /\ files.junk THEN Broken(p, files, NoIndex)
           ELSE \/ /\ missing = {}
                   /\ procs' = [procs EXCEPT ![p].index = index(TRUE)] /\ Goto(p, "state")
                   /\ UNCHANGED <<files, rules, lease, fresh, troubles>>
                \/ /\ missing # {}
                   /\ files' = [clean EXCEPT !.lines = @ \union missing]
                   /\ procs' = [procs EXCEPT ![p].index = index(TRUE)] /\ Goto(p, "state")
                   /\ UNCHANGED <<rules, lease, fresh, troubles>>
                \/ /\ missing # {}
                   /\ \E written \in SUBSET missing :
                          \E tail \in {NoTail} \union [id : missing \ written, whole : BOOLEAN] :
                              Broken(p, [clean EXCEPT !.lines = @ \union written, !.tail = tail], index(FALSE))
                \/ missing # {} /\ Broken(p, files, index(FALSE))

\* state.json: from here the new memory is what loads.
save_state(p) ==
    /\ At(p, "state")
    /\ atomic_replace(p, [files EXCEPT !.state = calls[p].memory],
                      IF calls[p].kind = "memory" THEN Passed(p, "leaf") ELSE Goto(p, "leaf"))

\* leaf, the pointer a shell tool reads, replaced or removed.
save_leaf(p) ==
    /\ At(p, "leaf")
    /\ atomic_replace(p, [files EXCEPT !.leaf = leaf(calls[p].memory)],
                      IF calls[p].kind = "create" THEN Goto(p, "record") ELSE Ended(p, "ok"))

\* agent.json, the commit point of a creation.
save_record(p) ==
    /\ At(p, "record")
    /\ atomic_replace(p, [files EXCEPT !.record = calls[p].record], Ended(p, "ok"))

\* The steps of delete_agent: agent.json first, then the rest of the directory,
\* of which a failure leaves any part, then the session's rules.
unlink_record_Defect(p) ==
    /\ At(p, "unlink")
    /\ \/ rules /\ rules' = FALSE /\ UNCHANGED <<files, lease, procs, calls, fresh, troubles>>
       \/ ~rules /\ atomic_replace(p, [files EXCEPT !.record = 0], Passed(p, "directory"))

unlink_record(p) ==
    /\ At(p, "unlink")
    /\ atomic_replace(p, [files EXCEPT !.record = 0], Passed(p, "directory"))

remove_directory(p) ==
    /\ At(p, "directory")
    /\ \/ /\ files' = EmptyFiles
          /\ Goto(p, "rules")
          /\ UNCHANGED <<rules, lease, procs, fresh, troubles>>
       \/ \E kept \in SUBSET {"log", "state", "leaf"} :
              Broken(p, [IF "log" \in kept THEN files
                         ELSE [files EXCEPT !.lines = {}, !.tail = NoTail, !.junk = FALSE]
                         EXCEPT !.state = IF "state" \in kept THEN @ ELSE None,
                                !.leaf = IF "leaf" \in kept THEN @ ELSE None],
                     procs[p].index)

clear_session_rules(p) ==
    /\ At(p, "rules")
    /\ \/ /\ rules' = FALSE
          /\ Ended(p, "ok")
          /\ UNCHANGED <<files, lease, procs, fresh, troubles>>
       \/ Broken(p, files, procs[p].index)

-----------------------------------------------------------------------------
Steps(p) ==
    \/ append_missing(p) \/ save_state(p) \/ save_leaf(p) \/ save_record(p)
    \/ unlink_record(p) \/ remove_directory(p) \/ clear_session_rules(p)

Requests(p) ==
    \/ Spawn(p) \/ Persist(p) \/ persist_agent_record(p) \/ remember_rule(p)
    \/ Resume(p) \/ ResumeRecord(p) \/ acquire_lease(p)
    \/ DropAgent(p) \/ DropRuntime(p) \/ delete_agent(p)

Next == \E p \in Runtimes : Requests(p) \/ Steps(p) \/ Crash(p)

Spec == Init /\ [][Next]_vars

-----------------------------------------------------------------------------
(* Properties.                                                             *)

\* The variables have their types.
TypeOK ==
    /\ files \in [lines : SUBSET Ids, tail : [id : {0} \union Ids, whole : BOOLEAN], junk : BOOLEAN,
                  state : MemoryState \union {None}, leaf : Ids \union {None}, record : 0..MaxRecords]
    /\ rules \in BOOLEAN /\ lease \in Runtimes \union {None}
    /\ procs \in [Runtimes -> [live : BOOLEAN, next : {"none", "record", "lease"}, memory : MemoryState,
                               record : 0..MaxRecords, index : [loaded : BOOLEAN, ids : SUBSET Ids]]]
    /\ \A p \in Runtimes : calls[p].memory \in MemoryState \union {None} /\ calls[p].done \in BOOLEAN
    /\ fresh \in 1..(MaxEntries + 1) /\ troubles \in 0..MaxTroubles

\* Whatever write fails and whoever dies, the four files change what load_agent
\* returns only as the store's contract allows: a save or a creation shows as a
\* whole or not at all, one that returned Ok shows, and the agent always loads.
ImplementsAgentStore == Contract!ContractSpec

\* The leaf of a listed agent names an entry the log has committed, whichever
\* save was cut short ("kept last so it never names an entry the log has not
\* committed").
LeafIsLogged == files.record # 0 /\ files.leaf # None => files.leaf \in files.lines

\* What a live process believes to be logged is in the log, on lines no later
\* append cuts away: its next save names no entry that cannot be read back.
IndexIsLogged ==
    \A p \in Runtimes :
        procs[p].live => procs[p].index.ids \intersect entries_of(procs[p].memory) \subseteq files.lines

\* Neither a file nor a process names what the log does not hold.
LogIsCommitted == TypeOK /\ LeafIsLogged /\ IndexIsLogged

\* A session keeps its remembered decisions for as long as it can be resumed:
\* they go only after agent.json has, and a delete that returned Ok has left
\* neither files nor rules.
DeletesInOrder ==
    [][/\ rules /\ ~rules' => files.record = 0
       /\ \A p \in Runtimes :
              calls[p].kind = "delete" /\ calls'[p] = Idle("ok") => files' = EmptyFiles /\ ~rules']_vars

\* Nobody but the runtime that holds an agent's lease writes the agent ("one
\* writer per agent, which mentra's runtime already holds").
LeaseGuardsWrites ==
    \A p \in Runtimes :
        calls[p].kind \in {"memory", "record"} /\ lease # None => lease = p
=============================================================================
