---------------------------- MODULE SqliteStore -----------------------------
(***************************************************************************)
(* One SQLite database shared by several processes: the agents and their   *)
(* memory, the leases and the team inbox (runtime/sqlite_store.rs; the     *)
(* hybrid store forwards all of it).  Every operation opens a connection   *)
(* of its own.  Writers run in one transaction and are one step; load_agent *)
(* and list_agents are several statements with nothing around them, so     *)
(* other processes act between two of their statements.                    *)
(***************************************************************************)
EXTENDS Naturals, FiniteSets

CONSTANTS Processes,    \* runtimes, one per process
          AgentKeys,    \* persisted agents
          Nothing,      \* no value
          LeaseTtl,     \* acquire_agent_lease asks for an hour
          MaxTime, MaxMail, MaxLosses

ASSUME LeaseTtlAssumption == LeaseTtl \in Nat \ {0}
ASSUME NothingAssumption == Nothing \notin Processes \union AgentKeys \union {"ok", "missing", "disappeared"}
ASSUME RowBoundsAssumption == MaxTime \in Nat /\ MaxMail \in Nat /\ MaxLosses \in Nat

VARIABLES records,   \* agents: which have a row
          memories,  \* agent_memory: which have a row
          sessionRules, \* permission_rules: the agents with rows of the session scope
          leaseRows, \* leases: the row of each agent's key
          mail,      \* team_inbox: letters of one recipient, by number
          now,       \* now_secs
          proc,      \* each process: alive, the leases it was granted, letters it read
          reading,   \* each process: the load or listing in progress
          living,    \* the agents each process holds in memory
          deletions, \* history: agents deleted while some process was reading or held them
          returned,  \* history: letters in flight that were made pending again
          losses     \* deaths of processes

sqliteVars == <<records, memories, sessionRules, leaseRows, mail, now, proc, reading, living, deletions, returned, losses>>

NoLease == [owner |-> Nothing, expires |-> 0]
Fresh == [alive |-> TRUE, granted |-> [a \in AgentKeys |-> 0], letters |-> {}]
NotReading == [pc |-> "idle", ids |-> {}, agent |-> Nothing, answer |-> Nothing]
Alive(p) == proc[p].alive

ProcIs(p, alive, granted, letters) ==
    proc' = [proc EXCEPT ![p] = [alive |-> alive, granted |-> granted, letters |-> letters]]
ReadingIs(p, pc, ids, agent, answer) ==
    reading' = [reading EXCEPT ![p] = [pc |-> pc, ids |-> ids, agent |-> agent, answer |-> answer]]

ProcStates == [alive : BOOLEAN, granted : [AgentKeys -> Nat], letters : SUBSET (1..MaxMail)]
ReadingStates ==
    [pc : {"idle", "record", "memory"}, ids : SUBSET AgentKeys, agent : AgentKeys \union {Nothing},
     answer : {Nothing, "ok", "missing", "disappeared"}]

SqliteTypeOK ==
    /\ records \subseteq AgentKeys /\ memories \subseteq AgentKeys /\ deletions \subseteq AgentKeys
    /\ sessionRules \subseteq AgentKeys
    /\ leaseRows \in [AgentKeys -> [owner : Processes \union {Nothing}, expires : Nat]]
    /\ mail \in [1..MaxMail -> {"none", "pending", "inflight", "acked"}] /\ returned \subseteq 1..MaxMail
    /\ now \in Nat /\ losses \in Nat
    /\ proc \in [Processes -> ProcStates] /\ reading \in [Processes -> ReadingStates]
    /\ living \in [Processes -> SUBSET AgentKeys]

SqliteInit ==
    /\ records = {} /\ memories = {} /\ sessionRules = {} /\ deletions = {} /\ returned = {}
    /\ leaseRows = [a \in AgentKeys |-> NoLease]
    /\ mail = [l \in 1..MaxMail |-> "none"]
    /\ now = 0 /\ losses = 0
    /\ proc = [p \in Processes |-> Fresh]
    /\ reading = [p \in Processes |-> NotReading]
    /\ living = [p \in Processes |-> {}]

----------------------------------------------------------------------------
(* Agents. *)

\* create_agent in two transactions.
create_agent_Split(p, a) ==
    /\ Alive(p) /\ reading[p].pc = "idle"
    /\ IF a \in living[p] THEN memories' = memories \union {a} /\ UNCHANGED <<records, living>>
       ELSE /\ a \notin records /\ a \notin memories
            /\ records' = records \union {a} /\ living' = [living EXCEPT ![p] = @ \union {a}]
            /\ UNCHANGED memories
    /\ UNCHANGED <<leaseRows, mail, now, proc, reading, sessionRules, deletions, returned, losses>>

\* Agent::new: a fresh identifier, so the agent is in nobody's memory.
create_agent(p, a) ==
    /\ Alive(p) /\ reading[p].pc = "idle" /\ a \notin records /\ \A q \in Processes : a \notin living[q]
    /\ records' = records \union {a} /\ memories' = memories \union {a}
    /\ living' = [living EXCEPT ![p] = @ \union {a}]
    /\ UNCHANGED <<leaseRows, mail, now, proc, reading, sessionRules, deletions, returned, losses>>

write_agent(p, a) ==
    /\ Alive(p) /\ a \in living[p] /\ reading[p].pc = "idle"
    /\ records' = records \union {a}
    /\ UNCHANGED <<memories, leaseRows, mail, now, proc, reading, living, sessionRules, deletions, returned, losses>>

write_agent_memory(p, a) ==
    /\ Alive(p) /\ a \in living[p] /\ reading[p].pc = "idle"
    /\ memories' = memories \union {a}
    /\ UNCHANGED <<records, leaseRows, mail, now, proc, reading, living, sessionRules, deletions, returned, losses>>

\* The session's rules: one added, or the last one gone.
edit_session_rules(p, a) ==
    /\ Alive(p) /\ a \in living[p] /\ reading[p].pc = "idle"
    /\ sessionRules' \in {sessionRules \union {a}, sessionRules \ {a}}
    /\ UNCHANGED <<records, memories, leaseRows, mail, now, proc, reading, living, deletions, returned, losses>>

\* Nothing stops an agent that is live, here or in another process.  The agent's
\* session rules go in the same transaction.
sqlite_delete_agent(p, a) ==
    /\ Alive(p) /\ reading[p].pc = "idle"
    /\ records' = records \ {a} /\ memories' = memories \ {a} /\ sessionRules' = sessionRules \ {a}
    /\ deletions' = IF \E q \in Processes : a \in living[q] \/ reading[q].pc # "idle"
                    THEN deletions \union {a} ELSE deletions
    /\ UNCHANGED <<leaseRows, mail, now, proc, reading, living, returned, losses>>

\* The host lets go of an agent.
DropLiving(p, a) ==
    /\ a \in living[p]
    /\ living' = [living EXCEPT ![p] = @ \ {a}]
    /\ UNCHANGED <<records, memories, leaseRows, mail, now, proc, reading, sessionRules, deletions, returned, losses>>

\* The statement's answer, and the agent whose row it wanted.
Answer(p, agent, answer) == ReadingIs(p, "idle", {}, agent, answer)

\* load_agent and each turn of list_agents: the record, then the memory.
list_agents(p) ==
    /\ Alive(p) /\ reading[p].pc = "idle"
    /\ IF records = {} THEN Answer(p, Nothing, "ok") ELSE ReadingIs(p, "record", records, Nothing, Nothing)
    /\ UNCHANGED <<records, memories, leaseRows, mail, now, proc, living, sessionRules, deletions, returned, losses>>

ReadRecord(p) ==
    /\ reading[p].pc = "record"
    /\ \E a \in reading[p].ids :
          IF a \in records THEN ReadingIs(p, "memory", reading[p].ids, a, Nothing) ELSE Answer(p, a, "disappeared")
    /\ UNCHANGED <<records, memories, leaseRows, mail, now, proc, living, sessionRules, deletions, returned, losses>>

sqlite_load_agent(p) ==
    /\ reading[p].pc = "memory"
    /\ IF reading[p].agent \notin memories THEN Answer(p, reading[p].agent, "missing")
       ELSE IF reading[p].ids = {reading[p].agent} THEN Answer(p, Nothing, "ok")
       ELSE ReadingIs(p, "record", reading[p].ids \ {reading[p].agent}, Nothing, Nothing)
    /\ UNCHANGED <<records, memories, leaseRows, mail, now, proc, living, sessionRules, deletions, returned, losses>>

----------------------------------------------------------------------------
(* Leases. *)

\* "runtime-" and the process id; kill(pid, 0) answers ESRCH.
runtime_owner_is_stale(owner) == owner # Nothing /\ ~proc[owner].alive

\* What acquire_lease and prepare_recovery delete first.
prune_stale_runtime_leases(p) ==
    [a \in AgentKeys |-> IF leaseRows[a].expires <= now \/ runtime_owner_is_stale(leaseRows[a].owner)
                         THEN NoLease ELSE leaseRows[a]]

sqlite_acquire_lease(p, a) ==
    LET left == prune_stale_runtime_leases(p)
        free == left[a].owner = Nothing
    IN  /\ Alive(p)
        /\ leaseRows' = IF free THEN [left EXCEPT ![a] = [owner |-> p, expires |-> now + LeaseTtl]] ELSE left
        /\ IF free THEN ProcIs(p, TRUE, [proc[p].granted EXCEPT ![a] = now + LeaseTtl], proc[p].letters)
           ELSE UNCHANGED proc
        /\ UNCHANGED <<records, memories, mail, now, reading, living, sessionRules, deletions, returned, losses>>

\* RuntimeHandle::drop, the last handle: every key it was ever granted.
release_lease(p) ==
    /\ Alive(p) /\ \E a \in AgentKeys : proc[p].granted[a] # 0
    /\ leaseRows' = [a \in AgentKeys |-> IF proc[p].granted[a] # 0 /\ leaseRows[a].owner = p
                                         THEN NoLease ELSE leaseRows[a]]
    /\ ProcIs(p, TRUE, [a \in AgentKeys |-> 0], proc[p].letters)
    /\ UNCHANGED <<records, memories, mail, now, reading, living, sessionRules, deletions, returned, losses>>

----------------------------------------------------------------------------
(* Letters to one teammate name, which each process may run. *)

InState(state) == {l \in DOMAIN mail : mail[l] = state}
Moved(from, to) == [l \in DOMAIN mail |-> IF mail[l] = from THEN to ELSE mail[l]]

append_team_message ==
    /\ \E p \in Processes : Alive(p)
    /\ \E l \in DOMAIN mail : /\ mail[l] = "none" /\ \A k \in 1..l - 1 : mail[k] # "none"
                              /\ mail' = [mail EXCEPT ![l] = "pending"]
    /\ UNCHANGED <<records, memories, leaseRows, now, proc, reading, living, sessionRules, deletions, returned, losses>>

read_team_inbox(p) ==
    /\ Alive(p) /\ InState("pending") # {}
    /\ ProcIs(p, TRUE, proc[p].granted, proc[p].letters \union InState("pending"))
    /\ mail' = Moved("pending", "inflight")
    /\ UNCHANGED <<records, memories, leaseRows, now, reading, living, sessionRules, deletions, returned, losses>>

\* A run that ends well acknowledges, one that fails requeues: every letter
\* of the name that is in flight.
SettleInbox(p, to) ==
    /\ Alive(p) /\ proc[p].letters # {}
    /\ mail' = Moved("inflight", to)
    /\ returned' = IF to = "pending" THEN returned \union InState("inflight") ELSE returned
    /\ ProcIs(p, TRUE, proc[p].granted, {})
    /\ UNCHANGED <<records, memories, leaseRows, now, reading, living, sessionRules, deletions, losses>>

----------------------------------------------------------------------------
(* Processes. *)

\* prepare_recovery of a runtime that starts: whatever is in flight becomes
\* pending again, also what another live process is working on.
prepare_recovery(p) ==
    /\ ~Alive(p)
    /\ proc' = [proc EXCEPT ![p] = Fresh]
    /\ mail' = Moved("inflight", "pending")
    /\ returned' = returned \union InState("inflight")
    /\ leaseRows' = prune_stale_runtime_leases(p)
    /\ UNCHANGED <<records, memories, now, reading, living, sessionRules, deletions, losses>>

Dies(p) ==
    /\ Alive(p) /\ losses < MaxLosses
    /\ losses' = losses + 1
    /\ ProcIs(p, FALSE, Fresh.granted, Fresh.letters)
    /\ reading' = [reading EXCEPT ![p] = NotReading]
    /\ living' = [living EXCEPT ![p] = {}]
    /\ UNCHANGED <<records, memories, leaseRows, mail, now, sessionRules, deletions, returned>>

now_secs ==
    /\ now < MaxTime /\ now' = now + 1
    /\ UNCHANGED <<records, memories, leaseRows, mail, proc, reading, living, sessionRules, deletions, returned, losses>>

SqliteNext ==
    \/ \E p \in Processes, a \in AgentKeys :
          create_agent(p, a) \/ write_agent(p, a) \/ write_agent_memory(p, a) \/ sqlite_delete_agent(p, a)
          \/ edit_session_rules(p, a) \/ DropLiving(p, a) \/ sqlite_acquire_lease(p, a)
    \/ \E p \in Processes :
          list_agents(p) \/ ReadRecord(p) \/ sqlite_load_agent(p) \/ release_lease(p) \/ read_team_inbox(p)
          \/ prepare_recovery(p) \/ Dies(p)
    \/ \E p \in Processes, to \in {"acked", "pending"} : SettleInbox(p, to)
    \/ append_team_message \/ now_secs

SqliteSpec == SqliteInit /\ [][SqliteNext]_sqliteVars

----------------------------------------------------------------------------

(* Of the processes that are alive, at most one was granted a lease on an  *)
(* agent that has not run out (LeaseStore: "Leases coordinate exclusive    *)
(* ownership when multiple runtime processes may try to resume the same    *)
(* persisted agents").                                                     *)
OneLeaseHolder ==
    \A a \in AgentKeys, p, q \in Processes :
        (/\ Alive(p) /\ proc[p].granted[a] > now
         /\ Alive(q) /\ proc[q].granted[a] > now) => p = q

(* A load or a listing fails for want of a row only when that agent was    *)
(* deleted while somebody held it or was reading: create_agent writes both *)
(* rows at once, and no other write removes one.                           *)
MissingRowsWereDeleted ==
    \A p \in Processes : reading[p].answer \in {"missing", "disappeared"} => reading[p].agent \in deletions

(* No agent leaves its session's rules behind ("session permission rules   *)
(* are private state owned by the agent"), unless it was deleted while     *)
(* somebody held it, who may write them again.                             *)
RulesHaveTheirAgent == sessionRules \subseteq records \union deletions

(* read_team_inbox claims what it reads: a letter is in two processes'     *)
(* hands only once it was returned to the inbox, by the recovery of a      *)
(* process that starts or by the requeue of a run that failed, both of     *)
(* which return whatever is in flight under the name.                      *)
LettersAreClaimedOnce ==
    \A p, q \in Processes : p # q => proc[p].letters \cap proc[q].letters \subseteq returned

(* Processes that share a database do not undo each other's work.          *)
SharedDatabaseIsSafe == OneLeaseHolder /\ MissingRowsWereDeleted /\ RulesHaveTheirAgent /\ LettersAreClaimedOnce

(* "It does not stop a live Agent already holding that id - an agent in    *)
(* memory keeps running, and persists itself again on its next write"      *)
(* (runtime.rs:831): whatever an agent wrote last, it can be loaded.       *)
WrittenIsLoadable == records \subseteq memories
=============================================================================
