----------------------------- MODULE SqliteProofs ---------------------------
(***************************************************************************)
(* What processes that share one SQLite database may rely on, proved for   *)
(* any sets of processes and agents, any number of letters and any bounds: *)
(* a lease has one live holder, a missing row was deleted under its        *)
(* reader, and a letter is claimed by one process until it is returned.    *)
(***************************************************************************)
EXTENDS SqliteStore, TLAPS

----------------------------------------------------------------------------
(* The inductive invariant, in three parts that rest on the types alone.   *)

\* A grant that has not run out is the row of its key.
GrantsAreRows ==
    \A a \in AgentKeys, p \in Processes :
        proc[p].alive /\ proc[p].granted[a] > now =>
            leaseRows[a].owner = p /\ leaseRows[a].expires = proc[p].granted[a]

\* An agent that was not deleted under somebody has both rows or neither, and
\* its rules only with them; it has them while a process holds it, and a listing's identifiers still have
\* their records.
RowsAreThere ==
    /\ \A a \in AgentKeys \ deletions :
          /\ a \in records => a \in memories
          /\ a \in sessionRules => a \in records
          /\ \A p \in Processes : a \in living[p] => a \in records
          /\ \A p \in Processes : reading[p].pc # "idle" /\ a \in reading[p].ids => a \in records
    /\ \A p \in Processes : reading[p].pc = "memory" => reading[p].agent \in reading[p].ids

\* A letter in hand is not pending, unless it was returned.
HeldIsClaimed ==
    \A p \in Processes : \A l \in proc[p].letters : l \in returned \/ mail[l] \in {"inflight", "acked"}

SqliteInv == SqliteTypeOK /\ GrantsAreRows /\ RowsAreThere /\ MissingRowsWereDeleted /\ HeldIsClaimed /\ LettersAreClaimedOnce

----------------------------------------------------------------------------
(* What the updates do to the types. *)

\* A process's new state has its type when its parts have theirs.
LEMMA ProcUpdate ==
    ASSUME proc \in [Processes -> ProcStates], NEW p \in Processes, NEW al \in BOOLEAN,
           NEW g \in [AgentKeys -> Nat], NEW ls \in SUBSET (1..MaxMail), ProcIs(p, al, g, ls)
    PROVE  /\ proc' \in [Processes -> ProcStates]
           /\ proc'[p].alive = al /\ proc'[p].granted = g /\ proc'[p].letters = ls
           /\ \A q \in Processes : q # p => proc'[q] = proc[q]
BY DEF ProcIs, ProcStates

\* The same for a listing in progress.
LEMMA ReadingUpdate ==
    ASSUME reading \in [Processes -> ReadingStates], NEW p \in Processes, NEW pc \in {"idle", "record", "memory"},
           NEW ids \in SUBSET AgentKeys, NEW a \in AgentKeys \union {Nothing},
           NEW an \in {Nothing, "ok", "missing", "disappeared"}, ReadingIs(p, pc, ids, a, an)
    PROVE  /\ reading' \in [Processes -> ReadingStates]
           /\ reading'[p].pc = pc /\ reading'[p].ids = ids /\ reading'[p].agent = a /\ reading'[p].answer = an
           /\ \A q \in Processes : q # p => reading'[q] = reading[q]
BY DEF ReadingIs, ReadingStates

\* Moving letters from one state to another keeps the others where they are.
LEMMA MovedLetters ==
    ASSUME SqliteTypeOK, NEW from, NEW to \in {"pending", "inflight", "acked"}, mail' = Moved(from, to)
    PROVE  /\ mail' \in [1..MaxMail -> {"none", "pending", "inflight", "acked"}]
           /\ \A l \in 1..MaxMail : mail'[l] = IF mail[l] = from THEN to ELSE mail[l]
BY DEF SqliteTypeOK, Moved

\* Pruning keeps the rows of live owners that have not run out.
LEMMA PrunedRows ==
    ASSUME SqliteTypeOK, NEW p
    PROVE  /\ prune_stale_runtime_leases(p) \in [AgentKeys -> [owner : Processes \union {Nothing}, expires : Nat]]
           /\ \A a \in AgentKeys :
                 IF leaseRows[a].expires <= now \/ (leaseRows[a].owner # Nothing /\ ~proc[leaseRows[a].owner].alive)
                 THEN prune_stale_runtime_leases(p)[a].owner = Nothing
                 ELSE prune_stale_runtime_leases(p)[a] = leaseRows[a]
BY DEF SqliteTypeOK, prune_stale_runtime_leases, runtime_owner_is_stale, NoLease

\* A process as it starts.
LEMMA FreshProc ==
    /\ Fresh \in ProcStates /\ Fresh.alive = TRUE /\ Fresh.letters = {}
    /\ Fresh.granted \in [AgentKeys -> Nat] /\ \A a \in AgentKeys : Fresh.granted[a] = 0
BY DEF Fresh, ProcStates

----------------------------------------------------------------------------

\* The types hold of the empty database.
LEMMA InitTypes == SqliteInit => SqliteTypeOK
BY FreshProc DEF SqliteInit, SqliteTypeOK, NoLease, NotReading, ReadingStates

\* Every statement keeps the types.
LEMMA StepTypes ==
    ASSUME SqliteTypeOK, [SqliteNext]_sqliteVars
    PROVE  SqliteTypeOK'
<1> USE LeaseTtlAssumption, RowBoundsAssumption
<1>1. ASSUME NEW p \in Processes, NEW a \in AgentKeys,
             create_agent(p, a) \/ write_agent(p, a) \/ write_agent_memory(p, a)
             \/ sqlite_delete_agent(p, a) \/ edit_session_rules(p, a) \/ DropLiving(p, a)
      PROVE  SqliteTypeOK'
  <2>1. /\ records' \subseteq AgentKeys /\ memories' \subseteq AgentKeys
        /\ sessionRules' \subseteq AgentKeys /\ deletions' \subseteq AgentKeys
    BY <1>1 DEF SqliteTypeOK, create_agent, write_agent, write_agent_memory, sqlite_delete_agent, edit_session_rules, DropLiving
  <2>2. living' \in [Processes -> SUBSET AgentKeys]
    BY <1>1 DEF SqliteTypeOK, create_agent, write_agent, write_agent_memory, sqlite_delete_agent, edit_session_rules, DropLiving
  <2>3. UNCHANGED <<leaseRows, mail, now, proc, reading, returned, losses>>
    BY <1>1 DEF create_agent, write_agent, write_agent_memory, sqlite_delete_agent, edit_session_rules, DropLiving
  <2> QED BY <2>1, <2>2, <2>3 DEF SqliteTypeOK
<1>2. ASSUME NEW p \in Processes, NEW a \in AgentKeys, sqlite_acquire_lease(p, a) PROVE SqliteTypeOK'
  <2> DEFINE left == prune_stale_runtime_leases(p)
  <2>1. left \in [AgentKeys -> [owner : Processes \union {Nothing}, expires : Nat]]
    BY PrunedRows
  <2>2. now + LeaseTtl \in Nat /\ proc[p].granted \in [AgentKeys -> Nat] /\ proc[p].letters \in SUBSET (1..MaxMail)
    BY DEF SqliteTypeOK, ProcStates
  <2>3. proc' \in [Processes -> ProcStates]
    <3>1. proc \in [Processes -> ProcStates]
      BY DEF SqliteTypeOK
    <3>2. CASE ProcIs(p, TRUE, [proc[p].granted EXCEPT ![a] = now + LeaseTtl], proc[p].letters)
      <4>1. [proc[p].granted EXCEPT ![a] = now + LeaseTtl] \in [AgentKeys -> Nat]
        BY <2>2
      <4> QED BY <2>2, <3>1, <3>2, <4>1, ProcUpdate
    <3>3. CASE UNCHANGED proc
      BY <3>1, <3>3
    <3> QED BY <1>2, <3>2, <3>3 DEF sqlite_acquire_lease
  <2>4. leaseRows' \in [AgentKeys -> [owner : Processes \union {Nothing}, expires : Nat]]
    <3>1. leaseRows' = left \/ leaseRows' = [left EXCEPT ![a] = [owner |-> p, expires |-> now + LeaseTtl]]
      BY <1>2 DEF sqlite_acquire_lease
    <3> HIDE DEF left
    <3> QED BY <2>1, <2>2, <3>1
  <2> QED BY <1>2, <2>3, <2>4 DEF SqliteTypeOK, sqlite_acquire_lease
<1>3. ASSUME NEW p \in Processes, list_agents(p) \/ ReadRecord(p) \/ sqlite_load_agent(p) PROVE SqliteTypeOK'
  <2>1. reading \in [Processes -> ReadingStates] /\ reading[p].ids \in SUBSET AgentKeys
        /\ reading[p].agent \in AgentKeys \union {Nothing} /\ records \in SUBSET AgentKeys
    BY DEF SqliteTypeOK, ReadingStates
  <2>2. \E pc \in {"idle", "record", "memory"}, ids \in SUBSET AgentKeys, a \in AgentKeys \union {Nothing},
           an \in {Nothing, "ok", "missing", "disappeared"} : ReadingIs(p, pc, ids, a, an)
    <3>1. CASE list_agents(p)
      BY <2>1, <3>1 DEF list_agents, Answer
    <3>2. CASE ReadRecord(p)
      <4>1. PICK a \in reading[p].ids :
               ReadingIs(p, "memory", reading[p].ids, a, Nothing) \/ Answer(p, a, "disappeared")
        BY <3>2 DEF ReadRecord
      <4> QED BY <2>1, <4>1 DEF Answer
    <3>3. CASE sqlite_load_agent(p)
      <4>1. reading[p].ids \ {reading[p].agent} \in SUBSET AgentKeys
        BY <2>1
      <4> QED BY <2>1, <3>3, <4>1 DEF sqlite_load_agent, Answer
    <3> QED BY <1>3, <3>1, <3>2, <3>3
  <2>3. reading' \in [Processes -> ReadingStates]
    <3>1. PICK pc \in {"idle", "record", "memory"}, ids \in SUBSET AgentKeys, a \in AgentKeys \union {Nothing},
               an \in {Nothing, "ok", "missing", "disappeared"} : ReadingIs(p, pc, ids, a, an)
      BY <2>2
    <3> QED BY <2>1, <3>1 DEF ReadingIs, ReadingStates
  <2> QED BY <1>3, <2>3 DEF SqliteTypeOK, list_agents, ReadRecord, sqlite_load_agent
<1>4. ASSUME NEW p \in Processes,
             release_lease(p) \/ read_team_inbox(p) \/ Dies(p) \/ (\E to \in {"acked", "pending"} : SettleInbox(p, to))
      PROVE  SqliteTypeOK'
  <2>1. proc \in [Processes -> ProcStates] /\ proc[p].granted \in [AgentKeys -> Nat]
        /\ proc[p].letters \in SUBSET (1..MaxMail) /\ \A st : InState(st) \in SUBSET (1..MaxMail)
    BY DEF SqliteTypeOK, ProcStates, InState
  <2>2. proc' \in [Processes -> ProcStates]
    <3>1. \E al \in BOOLEAN, g \in [AgentKeys -> Nat], ls \in SUBSET (1..MaxMail) : ProcIs(p, al, g, ls)
      BY <1>4, <2>1, FreshProc DEF release_lease, read_team_inbox, Dies, SettleInbox
    <3> QED BY <2>1, <3>1, ProcUpdate
  <2>3. mail' \in [1..MaxMail -> {"none", "pending", "inflight", "acked"}] /\ returned' \subseteq 1..MaxMail
    <3>1. \/ UNCHANGED mail
          \/ \E from \in {"pending", "inflight"}, to \in {"pending", "inflight", "acked"} : mail' = Moved(from, to)
      BY <1>4 DEF release_lease, read_team_inbox, Dies, SettleInbox
    <3>2. returned' = returned \/ returned' = returned \union InState("inflight")
      BY <1>4 DEF release_lease, read_team_inbox, Dies, SettleInbox
    <3> QED BY <2>1, <3>1, <3>2, MovedLetters DEF SqliteTypeOK
  <2>4. leaseRows' \in [AgentKeys -> [owner : Processes \union {Nothing}, expires : Nat]]
    <3>1. CASE release_lease(p)
      BY <3>1 DEF SqliteTypeOK, release_lease, NoLease
    <3>2. CASE UNCHANGED leaseRows
      BY <3>2 DEF SqliteTypeOK
    <3> QED BY <1>4, <3>1, <3>2 DEF read_team_inbox, Dies, SettleInbox
  <2>5. reading' \in [Processes -> ReadingStates] /\ living' \in [Processes -> SUBSET AgentKeys] /\ losses' \in Nat
    <3>1. CASE Dies(p)
      <4>1. NotReading \in ReadingStates
        BY DEF NotReading, ReadingStates
      <4> QED BY <3>1, <4>1 DEF SqliteTypeOK, Dies
    <3>2. CASE UNCHANGED <<reading, living, losses>>
      BY <3>2 DEF SqliteTypeOK
    <3> QED BY <1>4, <3>1, <3>2 DEF release_lease, read_team_inbox, SettleInbox
  <2>6. UNCHANGED <<records, memories, sessionRules, deletions, now>>
    BY <1>4 DEF release_lease, read_team_inbox, Dies, SettleInbox
  <2> QED BY <2>2, <2>3, <2>4, <2>5, <2>6 DEF SqliteTypeOK
<1>5. ASSUME NEW p \in Processes, prepare_recovery(p) PROVE SqliteTypeOK'
  <2>1. proc' \in [Processes -> ProcStates]
    BY <1>5, FreshProc DEF SqliteTypeOK, prepare_recovery
  <2>2. mail' \in [1..MaxMail -> {"none", "pending", "inflight", "acked"}]
    BY <1>5, MovedLetters DEF prepare_recovery
  <2>3. leaseRows' \in [AgentKeys -> [owner : Processes \union {Nothing}, expires : Nat]]
    BY <1>5, PrunedRows DEF prepare_recovery
  <2> QED BY <1>5, <2>1, <2>2, <2>3 DEF SqliteTypeOK, prepare_recovery, InState
<1>6. ASSUME append_team_message PROVE SqliteTypeOK'
  BY <1>6 DEF SqliteTypeOK, append_team_message
<1>7. ASSUME now_secs PROVE SqliteTypeOK'
  BY <1>7 DEF SqliteTypeOK, now_secs
<1>8. ASSUME UNCHANGED sqliteVars PROVE SqliteTypeOK'
  BY <1>8 DEF SqliteTypeOK, sqliteVars
<1> QED BY <1>1, <1>2, <1>3, <1>4, <1>5, <1>6, <1>7, <1>8 DEF SqliteNext

----------------------------------------------------------------------------
(* Leases. *)

\* A step that leaves the rows alone and makes no grant later keeps grants rows.
LEMMA GrantsKept ==
    ASSUME GrantsAreRows, UNCHANGED leaseRows,
           \A q \in Processes, b \in AgentKeys :
               proc'[q].alive /\ proc'[q].granted[b] > now' =>
                   proc[q].alive /\ proc[q].granted[b] = proc'[q].granted[b] /\ proc[q].granted[b] > now
    PROVE  GrantsAreRows'
BY DEF GrantsAreRows

\* A live holder's row survives the pruning.
LEMMA PruningKeepsGrants ==
    ASSUME SqliteTypeOK, GrantsAreRows, NEW p, NEW q \in Processes, NEW b \in AgentKeys,
           proc[q].alive, proc[q].granted[b] > now
    PROVE  /\ prune_stale_runtime_leases(p)[b].owner = q
           /\ prune_stale_runtime_leases(p)[b].expires = proc[q].granted[b]
<1>1. leaseRows[b].owner = q /\ leaseRows[b].expires = proc[q].granted[b]
  BY DEF GrantsAreRows
<1>2. now \in Nat /\ proc[q].granted[b] \in Nat
  BY DEF SqliteTypeOK, ProcStates
<1> QED BY <1>1, <1>2, PrunedRows

\* Every step keeps the grants that have not run out in the table.
LEMMA StepGrants ==
    ASSUME SqliteTypeOK, GrantsAreRows, [SqliteNext]_sqliteVars
    PROVE  GrantsAreRows'
<1> USE NothingAssumption
<1>0. /\ now \in Nat /\ proc \in [Processes -> ProcStates]
      /\ \A q \in Processes : /\ proc[q].granted \in [AgentKeys -> Nat]
                              /\ proc[q].letters \in SUBSET (1..MaxMail)
  BY DEF SqliteTypeOK, ProcStates
<1>1. ASSUME UNCHANGED <<leaseRows, proc, now>> PROVE GrantsAreRows'
  BY <1>1 DEF GrantsAreRows
<1>2. ASSUME NEW p \in Processes, NEW a \in AgentKeys, sqlite_acquire_lease(p, a) PROVE GrantsAreRows'
  <2> DEFINE left == prune_stale_runtime_leases(p)
             g == [proc[p].granted EXCEPT ![a] = now + LeaseTtl]
  <2>1. now' = now /\ proc[p].alive
    BY <1>2 DEF sqlite_acquire_lease, Alive
  <2>2. CASE left[a].owner = Nothing
    <3>1. leaseRows' = [left EXCEPT ![a] = [owner |-> p, expires |-> now + LeaseTtl]]
          /\ ProcIs(p, TRUE, g, proc[p].letters)
      BY <1>2, <2>2 DEF sqlite_acquire_lease
    <3>2. g \in [AgentKeys -> Nat]
      BY <1>0, LeaseTtlAssumption
    <3>3. /\ proc'[p].alive /\ proc'[p].granted = g
          /\ \A q \in Processes : q # p => proc'[q] = proc[q]
      BY <1>0, <3>1, <3>2, ProcUpdate
    <3>4. left \in [AgentKeys -> [owner : Processes \union {Nothing}, expires : Nat]]
      BY PrunedRows
    <3>5. SUFFICES ASSUME NEW q \in Processes, NEW b \in AgentKeys, proc'[q].alive, proc'[q].granted[b] > now
                   PROVE  leaseRows'[b].owner = q /\ leaseRows'[b].expires = proc'[q].granted[b]
      BY <2>1 DEF GrantsAreRows
    <3>6. CASE q = p /\ b = a
      <4> HIDE DEF left
      <4> QED BY <1>0, <3>1, <3>3, <3>4, <3>6
    <3>7. CASE ~(q = p /\ b = a)
      <4>1. proc[q].alive /\ proc'[q].granted[b] = proc[q].granted[b]
        <5>1. CASE q # p
          BY <3>3, <3>5, <5>1
        <5>2. CASE q = p
          <6>1. b # a /\ g[b] = proc[p].granted[b]
            BY <1>0, <3>7, <5>2
          <6> QED BY <2>1, <3>3, <5>2, <6>1
        <5> QED BY <5>1, <5>2
      <4>2. left[b].owner = q /\ left[b].expires = proc[q].granted[b]
        BY <3>5, <4>1, PruningKeepsGrants
      <4>3. b # a
        BY <2>2, <4>2
      <4> HIDE DEF left
      <4> QED BY <3>1, <3>4, <4>1, <4>2, <4>3
    <3> QED BY <3>6, <3>7
  <2>3. CASE left[a].owner # Nothing
    <3>1. leaseRows' = left /\ UNCHANGED proc
      BY <1>2, <2>3 DEF sqlite_acquire_lease
    <3> QED BY <2>1, <3>1, PruningKeepsGrants DEF GrantsAreRows
  <2> QED BY <2>2, <2>3
<1>3. ASSUME NEW p \in Processes, release_lease(p) PROVE GrantsAreRows'
  <2>1. ProcIs(p, TRUE, [a \in AgentKeys |-> 0], proc[p].letters) /\ now' = now
    BY <1>3 DEF release_lease
  <2>2. /\ proc'[p].granted = [a \in AgentKeys |-> 0]
        /\ \A q \in Processes : q # p => proc'[q] = proc[q]
    <3>1. [a \in AgentKeys |-> 0] \in [AgentKeys -> Nat]
      OBVIOUS
    <3> QED BY <1>0, <2>1, <3>1, ProcUpdate
  <2>3. \A b \in AgentKeys : leaseRows[b].owner # p => leaseRows'[b] = leaseRows[b]
    BY <1>3 DEF release_lease
  <2> QED BY <1>0, <2>1, <2>2, <2>3 DEF GrantsAreRows
<1>4. ASSUME NEW p \in Processes, read_team_inbox(p) \/ (\E to \in {"acked", "pending"} : SettleInbox(p, to))
      PROVE  GrantsAreRows'
  <2>1. PICK ls \in SUBSET (1..MaxMail) : ProcIs(p, TRUE, proc[p].granted, ls)
    <3>1. InState("pending") \in SUBSET (1..MaxMail)
      BY DEF InState, SqliteTypeOK
    <3> QED BY <1>0, <1>4, <3>1 DEF read_team_inbox, SettleInbox
  <2>2. /\ proc'[p].granted = proc[p].granted
        /\ \A q \in Processes : q # p => proc'[q] = proc[q]
    BY <1>0, <2>1, ProcUpdate
  <2>3. UNCHANGED <<leaseRows, now>> /\ proc[p].alive
    BY <1>4 DEF read_team_inbox, SettleInbox, Alive
  <2> QED BY <2>2, <2>3, GrantsKept
<1>5. ASSUME NEW p \in Processes, prepare_recovery(p) PROVE GrantsAreRows'
  <2>1. /\ proc'[p].granted = Fresh.granted /\ now' = now /\ leaseRows' = prune_stale_runtime_leases(p)
        /\ \A q \in Processes : q # p => proc'[q] = proc[q]
    BY <1>0, <1>5 DEF prepare_recovery
  <2>2. SUFFICES ASSUME NEW q \in Processes, NEW b \in AgentKeys, proc'[q].alive, proc'[q].granted[b] > now
                 PROVE  leaseRows'[b].owner = q /\ leaseRows'[b].expires = proc'[q].granted[b]
    BY <2>1 DEF GrantsAreRows
  <2>3. q # p
    BY <1>0, <2>1, <2>2, FreshProc
  <2> QED BY <2>1, <2>2, <2>3, PruningKeepsGrants
<1>6. ASSUME NEW p \in Processes, Dies(p) PROVE GrantsAreRows'
  <2>1. /\ ~proc'[p].alive /\ UNCHANGED <<now, leaseRows>>
        /\ \A q \in Processes : q # p => proc'[q] = proc[q]
    BY <1>0, <1>6, FreshProc, ProcUpdate DEF Dies
  <2> QED BY <2>1, GrantsKept
<1>7. ASSUME now_secs PROVE GrantsAreRows'
  BY <1>0, <1>7, GrantsKept DEF now_secs
<1>8. ASSUME NEW p \in Processes, NEW a \in AgentKeys,
             create_agent(p, a) \/ write_agent(p, a) \/ write_agent_memory(p, a)
             \/ sqlite_delete_agent(p, a) \/ edit_session_rules(p, a) \/ DropLiving(p, a)
      PROVE  GrantsAreRows'
  BY <1>1, <1>8 DEF create_agent, write_agent, write_agent_memory, sqlite_delete_agent, edit_session_rules, DropLiving
<1>9. ASSUME NEW p \in Processes, list_agents(p) \/ ReadRecord(p) \/ sqlite_load_agent(p) PROVE GrantsAreRows'
  BY <1>1, <1>9 DEF list_agents, ReadRecord, sqlite_load_agent
<1>10. ASSUME append_team_message \/ UNCHANGED sqliteVars PROVE GrantsAreRows'
  BY <1>1, <1>10 DEF append_team_message, sqliteVars
<1> QED BY <1>2, <1>3, <1>4, <1>5, <1>6, <1>7, <1>8, <1>9, <1>10 DEF SqliteNext

----------------------------------------------------------------------------
(* Rows. *)

\* What a step on agents' rows, on listings, or on neither does to them.
LEMMA StepRows ==
    ASSUME SqliteTypeOK, RowsAreThere, MissingRowsWereDeleted, [SqliteNext]_sqliteVars
    PROVE  RowsAreThere' /\ MissingRowsWereDeleted'
<1>0. /\ reading \in [Processes -> ReadingStates] /\ living \in [Processes -> SUBSET AgentKeys]
      /\ \A q \in Processes : reading[q].ids \in SUBSET AgentKeys /\ reading[q].agent \in AgentKeys \union {Nothing}
      /\ records \in SUBSET AgentKeys /\ memories \in SUBSET AgentKeys
  BY DEF SqliteTypeOK, ReadingStates
<1>1. ASSUME UNCHANGED <<records, memories, sessionRules, reading, living, deletions>>
      PROVE  RowsAreThere' /\ MissingRowsWereDeleted'
  BY <1>1 DEF RowsAreThere, MissingRowsWereDeleted
<1>2. ASSUME NEW p \in Processes, NEW a \in AgentKeys, create_agent(p, a)
      PROVE  RowsAreThere' /\ MissingRowsWereDeleted'
  <2>1. /\ records' = records \union {a} /\ memories' = memories \union {a}
        /\ UNCHANGED <<sessionRules, reading, deletions>>
        /\ \A q \in Processes : living'[q] \subseteq living[q] \union {a}
    BY <1>0, <1>2 DEF create_agent
  <2> QED BY <2>1 DEF RowsAreThere, MissingRowsWereDeleted
<1>3. ASSUME NEW p \in Processes, NEW a \in AgentKeys, write_agent(p, a) \/ write_agent_memory(p, a) \/ edit_session_rules(p, a)
      PROVE  RowsAreThere' /\ MissingRowsWereDeleted'
  <2>1. /\ a \in living[p] /\ UNCHANGED <<reading, living, deletions>>
        /\ records' \in {records, records \union {a}} /\ memories' \in {memories, memories \union {a}}
        /\ sessionRules' \subseteq sessionRules \union {a}
    BY <1>3 DEF write_agent, write_agent_memory, edit_session_rules
  <2>2. a \notin deletions => a \in records /\ a \in memories
    BY <2>1 DEF RowsAreThere
  <2> QED BY <2>1, <2>2 DEF RowsAreThere, MissingRowsWereDeleted
<1>4. ASSUME NEW p \in Processes, NEW a \in AgentKeys, sqlite_delete_agent(p, a)
      PROVE  RowsAreThere' /\ MissingRowsWereDeleted'
  <2>1. /\ records' = records \ {a} /\ memories' = memories \ {a} /\ UNCHANGED <<reading, living>>
        /\ sessionRules' = sessionRules \ {a} /\ deletions \subseteq deletions'
    BY <1>4 DEF sqlite_delete_agent
  <2>2. a \notin deletions' => \A q \in Processes : a \notin living[q] /\ reading[q].pc = "idle"
    BY <1>4 DEF sqlite_delete_agent
  <2> QED BY <2>1, <2>2 DEF RowsAreThere, MissingRowsWereDeleted
<1>5. ASSUME NEW p \in Processes, NEW a \in AgentKeys, DropLiving(p, a)
      PROVE  RowsAreThere' /\ MissingRowsWereDeleted'
  <2>1. /\ UNCHANGED <<records, memories, sessionRules, reading, deletions>>
        /\ \A q \in Processes : living'[q] \subseteq living[q]
    BY <1>0, <1>5 DEF DropLiving
  <2> QED BY <2>1 DEF RowsAreThere, MissingRowsWereDeleted
<1>6. ASSUME NEW p \in Processes, NEW pc \in {"idle", "record", "memory"}, NEW ids \in SUBSET AgentKeys,
             NEW a \in AgentKeys \union {Nothing}, NEW an \in {Nothing, "ok", "missing", "disappeared"},
             ReadingIs(p, pc, ids, a, an), UNCHANGED <<records, memories, sessionRules, living, deletions>>,
             pc = "idle" \/ \A b \in ids : b \in deletions \/ b \in records,
             pc = "memory" => a \in ids, an \in {"missing", "disappeared"} => a \in deletions
      PROVE  RowsAreThere' /\ MissingRowsWereDeleted'
  <2>1. /\ reading'[p].pc = pc /\ reading'[p].ids = ids /\ reading'[p].agent = a /\ reading'[p].answer = an
        /\ \A q \in Processes : q # p => reading'[q] = reading[q]
    BY <1>0, <1>6 DEF ReadingIs
  <2> QED BY <1>6, <2>1 DEF RowsAreThere, MissingRowsWereDeleted
<1>7. ASSUME NEW p \in Processes, list_agents(p) PROVE RowsAreThere' /\ MissingRowsWereDeleted'
  <2>1. UNCHANGED <<records, memories, sessionRules, living, deletions>>
    BY <1>7 DEF list_agents
  <2>2. CASE ReadingIs(p, "idle", {}, Nothing, "ok")
    BY <1>6, <2>1, <2>2
  <2>3. CASE ReadingIs(p, "record", records, Nothing, Nothing) /\ Nothing \notin {"missing", "disappeared"}
    BY <1>0, <1>6, <2>1, <2>3
  <2> QED BY <1>7, <2>2, <2>3, NothingAssumption DEF list_agents, Answer
<1>8. ASSUME NEW p \in Processes, ReadRecord(p) PROVE RowsAreThere' /\ MissingRowsWereDeleted'
  <2>1. UNCHANGED <<records, memories, sessionRules, living, deletions>> /\ reading[p].pc = "record"
    BY <1>8 DEF ReadRecord
  <2>2. PICK a \in reading[p].ids : IF a \in records THEN ReadingIs(p, "memory", reading[p].ids, a, Nothing)
                                  ELSE ReadingIs(p, "idle", {}, a, "disappeared")
    BY <1>8 DEF ReadRecord, Answer
  <2>3. \A b \in reading[p].ids : b \in deletions \/ b \in records
    BY <1>0, <2>1 DEF RowsAreThere
  <2>4. CASE a \in records
    BY <1>0, <1>6, <2>1, <2>2, <2>3, <2>4, NothingAssumption
  <2>5. CASE a \notin records
    BY <1>0, <1>6, <2>1, <2>2, <2>3, <2>5
  <2> QED BY <2>4, <2>5
<1>9. ASSUME NEW p \in Processes, sqlite_load_agent(p) PROVE RowsAreThere' /\ MissingRowsWereDeleted'
  <2> DEFINE a == reading[p].agent
  <2>1. UNCHANGED <<records, memories, sessionRules, living, deletions>> /\ reading[p].pc = "memory"
    BY <1>9 DEF sqlite_load_agent
  <2>2. a \in reading[p].ids /\ a \in AgentKeys /\ \A b \in reading[p].ids : b \in deletions \/ b \in records
    BY <1>0, <2>1 DEF RowsAreThere
  <2>3. a \notin memories => a \in deletions
    BY <2>2 DEF RowsAreThere
  <2>4. CASE ReadingIs(p, "idle", {}, a, "missing") /\ a \notin memories
    BY <1>6, <2>1, <2>2, <2>3, <2>4
  <2>5. CASE ReadingIs(p, "idle", {}, Nothing, "ok")
    BY <1>6, <2>1, <2>5
  <2>6. CASE ReadingIs(p, "record", reading[p].ids \ {a}, Nothing, Nothing)
    BY <1>0, <1>6, <2>1, <2>2, <2>6, NothingAssumption
  <2> QED BY <1>9, <2>4, <2>5, <2>6 DEF sqlite_load_agent, Answer
<1>10. ASSUME NEW p \in Processes, Dies(p) PROVE RowsAreThere' /\ MissingRowsWereDeleted'
  <2>1. /\ UNCHANGED <<records, memories, sessionRules, deletions>> /\ reading'[p] = NotReading
        /\ \A q \in Processes : q # p => reading'[q] = reading[q]
        /\ \A q \in Processes : living'[q] \subseteq living[q]
    BY <1>0, <1>10 DEF Dies
  <2>2. NotReading.pc = "idle" /\ NotReading.answer \notin {"missing", "disappeared"}
    BY NothingAssumption DEF NotReading
  <2> QED BY <2>1, <2>2 DEF RowsAreThere, MissingRowsWereDeleted
<1>11. ASSUME NEW p \in Processes,
              \/ \E a \in AgentKeys : sqlite_acquire_lease(p, a)
              \/ release_lease(p) \/ read_team_inbox(p) \/ prepare_recovery(p)
              \/ \E to \in {"acked", "pending"} : SettleInbox(p, to)
       PROVE  RowsAreThere' /\ MissingRowsWereDeleted'
  BY <1>1, <1>11 DEF sqlite_acquire_lease, release_lease, read_team_inbox, prepare_recovery, SettleInbox
<1>12. ASSUME append_team_message \/ now_secs \/ UNCHANGED sqliteVars PROVE RowsAreThere' /\ MissingRowsWereDeleted'
  BY <1>1, <1>12 DEF append_team_message, now_secs, sqliteVars
<1> QED BY <1>2, <1>3, <1>4, <1>5, <1>7, <1>8, <1>9, <1>10, <1>11, <1>12 DEF SqliteNext

----------------------------------------------------------------------------
(* Letters. *)

\* Every step keeps letters claimed: reading takes pending letters only, and what
\* makes a letter pending again records its return.
LEMMA StepLetters ==
    ASSUME SqliteTypeOK, HeldIsClaimed, LettersAreClaimedOnce, [SqliteNext]_sqliteVars
    PROVE  HeldIsClaimed' /\ LettersAreClaimedOnce'
<1>0. /\ proc \in [Processes -> ProcStates]
      /\ \A q \in Processes : /\ proc[q].granted \in [AgentKeys -> Nat]
                              /\ proc[q].letters \in SUBSET (1..MaxMail)
      /\ DOMAIN mail = 1..MaxMail
  BY DEF SqliteTypeOK, ProcStates
<1>1. ASSUME UNCHANGED <<mail, returned>>, \A q \in Processes : proc'[q].letters \subseteq proc[q].letters
      PROVE  HeldIsClaimed' /\ LettersAreClaimedOnce'
  BY <1>1 DEF HeldIsClaimed, LettersAreClaimedOnce
<1>2. ASSUME NEW p \in Processes, NEW a \in AgentKeys, sqlite_acquire_lease(p, a)
      PROVE  HeldIsClaimed' /\ LettersAreClaimedOnce'
  <2>1. UNCHANGED <<mail, returned>>
    BY <1>2 DEF sqlite_acquire_lease
  <2>2. CASE UNCHANGED proc
    BY <1>1, <2>1, <2>2
  <2>3. CASE ProcIs(p, TRUE, [proc[p].granted EXCEPT ![a] = now + LeaseTtl], proc[p].letters)
    <3>1. now + LeaseTtl \in Nat
      BY LeaseTtlAssumption DEF SqliteTypeOK
    <3>2. [proc[p].granted EXCEPT ![a] = now + LeaseTtl] \in [AgentKeys -> Nat]
      BY <1>0, <3>1
    <3>3. proc'[p].letters = proc[p].letters /\ \A q \in Processes : q # p => proc'[q] = proc[q]
      BY <1>0, <2>3, <3>2, ProcUpdate
    <3> QED BY <1>1, <2>1, <3>3
  <2> QED BY <1>2, <2>2, <2>3 DEF sqlite_acquire_lease
<1>3. ASSUME NEW p \in Processes, release_lease(p) PROVE HeldIsClaimed' /\ LettersAreClaimedOnce'
  <2>1. ProcIs(p, TRUE, [a \in AgentKeys |-> 0], proc[p].letters) /\ UNCHANGED <<mail, returned>>
    BY <1>3 DEF release_lease
  <2>2. [a \in AgentKeys |-> 0] \in [AgentKeys -> Nat]
    OBVIOUS
  <2>3. proc'[p].letters = proc[p].letters /\ \A q \in Processes : q # p => proc'[q] = proc[q]
    BY <1>0, <2>1, <2>2, ProcUpdate
  <2> QED BY <1>1, <2>1, <2>3
<1>4. ASSUME NEW p \in Processes, read_team_inbox(p) PROVE HeldIsClaimed' /\ LettersAreClaimedOnce'
  <2>1. ProcIs(p, TRUE, proc[p].granted, proc[p].letters \union InState("pending")) /\ UNCHANGED returned
    BY <1>4 DEF read_team_inbox
  <2>2. proc[p].letters \union InState("pending") \in SUBSET (1..MaxMail)
    BY <1>0 DEF InState
  <2>3. /\ proc'[p].letters = proc[p].letters \union InState("pending")
        /\ \A q \in Processes : q # p => proc'[q] = proc[q]
    BY <1>0, <2>1 DEF ProcIs
  <2>4. \A l \in 1..MaxMail : mail'[l] = IF mail[l] = "pending" THEN "inflight" ELSE mail[l]
    BY <1>4, MovedLetters DEF read_team_inbox
  <2>5. \A q \in Processes : proc[q].letters \cap InState("pending") \subseteq returned
    BY DEF HeldIsClaimed, InState
  <2>6. \A l \in InState("pending") : l \in 1..MaxMail /\ mail[l] = "pending"
    BY <1>0 DEF InState
  <2>7. HeldIsClaimed'
    BY <1>0, <2>1, <2>3, <2>4, <2>6 DEF HeldIsClaimed
  <2>8. LettersAreClaimedOnce'
    BY <2>1, <2>3, <2>5 DEF LettersAreClaimedOnce
  <2> QED BY <2>7, <2>8
<1>5. ASSUME NEW p \in Processes, NEW to \in {"acked", "pending"}, SettleInbox(p, to)
      PROVE  HeldIsClaimed' /\ LettersAreClaimedOnce'
  <2>1. /\ ProcIs(p, TRUE, proc[p].granted, {})
        /\ returned' = IF to = "pending" THEN returned \union InState("inflight") ELSE returned
    BY <1>5 DEF SettleInbox
  <2>2. proc'[p].letters = {} /\ \A q \in Processes : q # p => proc'[q] = proc[q]
    BY <1>0, <2>1 DEF ProcIs
  <2>3. \A l \in 1..MaxMail : mail'[l] = IF mail[l] = "inflight" THEN to ELSE mail[l]
    BY <1>5, MovedLetters DEF SettleInbox
  <2>4. \A l \in 1..MaxMail : mail[l] = "inflight" => l \in InState("inflight")
    BY <1>0 DEF InState
  <2>5. HeldIsClaimed'
    <3> SUFFICES ASSUME NEW q \in Processes, NEW l \in proc'[q].letters
                 PROVE  l \in returned' \/ mail'[l] \in {"inflight", "acked"}
      BY DEF HeldIsClaimed
    <3>1. l \in proc[q].letters /\ l \in 1..MaxMail
      BY <1>0, <2>1, <2>2
    <3>2. l \in returned \/ mail[l] \in {"inflight", "acked"}
      BY <3>1 DEF HeldIsClaimed
    <3> QED BY <2>1, <2>3, <2>4, <3>1, <3>2
  <2>6. LettersAreClaimedOnce'
    BY <2>1, <2>2 DEF LettersAreClaimedOnce
  <2> QED BY <2>5, <2>6
<1>6. ASSUME NEW p \in Processes, prepare_recovery(p) PROVE HeldIsClaimed' /\ LettersAreClaimedOnce'
  <2>1. proc'[p].letters = {} /\ \A q \in Processes : q # p => proc'[q] = proc[q]
    BY <1>0, <1>6, FreshProc DEF prepare_recovery
  <2>2. \A l \in 1..MaxMail : mail'[l] = IF mail[l] = "inflight" THEN "pending" ELSE mail[l]
    BY <1>6, MovedLetters DEF prepare_recovery
  <2>3. returned' = returned \union InState("inflight")
    BY <1>6 DEF prepare_recovery
  <2>4. \A l \in 1..MaxMail : mail[l] = "inflight" => l \in InState("inflight")
    BY <1>0 DEF InState
  <2>5. HeldIsClaimed'
    <3> SUFFICES ASSUME NEW q \in Processes, NEW l \in proc'[q].letters
                 PROVE  l \in returned' \/ mail'[l] \in {"inflight", "acked"}
      BY DEF HeldIsClaimed
    <3>1. l \in proc[q].letters /\ l \in 1..MaxMail
      BY <1>0, <2>1, <2>2
    <3>2. l \in returned \/ mail[l] \in {"inflight", "acked"}
      BY <3>1 DEF HeldIsClaimed
    <3> QED BY <2>2, <2>3, <2>4, <3>1, <3>2
  <2>6. LettersAreClaimedOnce'
    BY <2>1, <2>3 DEF LettersAreClaimedOnce
  <2> QED BY <2>5, <2>6
<1>7. ASSUME NEW p \in Processes, Dies(p) PROVE HeldIsClaimed' /\ LettersAreClaimedOnce'
  <2>1. UNCHANGED <<mail, returned>> /\ ProcIs(p, FALSE, Fresh.granted, {})
    BY <1>7, FreshProc DEF Dies
  <2>2. proc'[p].letters = {} /\ \A q \in Processes : q # p => proc'[q] = proc[q]
    BY <1>0, <2>1 DEF ProcIs
  <2> QED BY <1>1, <2>1, <2>2
<1>8. ASSUME append_team_message PROVE HeldIsClaimed' /\ LettersAreClaimedOnce'
  <2>1. /\ UNCHANGED <<proc, returned>>
        /\ \A l \in 1..MaxMail : mail[l] # "none" => mail'[l] = mail[l]
    BY <1>0, <1>8 DEF append_team_message, SqliteTypeOK
  <2> QED BY <1>0, <2>1 DEF HeldIsClaimed, LettersAreClaimedOnce
<1>9. ASSUME NEW p \in Processes,
             \/ \E a \in AgentKeys : create_agent(p, a) \/ write_agent(p, a) \/ write_agent_memory(p, a)
                                    \/ sqlite_delete_agent(p, a) \/ edit_session_rules(p, a) \/ DropLiving(p, a)
             \/ list_agents(p) \/ ReadRecord(p) \/ sqlite_load_agent(p)
      PROVE  HeldIsClaimed' /\ LettersAreClaimedOnce'
  <2>1. UNCHANGED <<mail, returned, proc>>
    BY <1>9 DEF create_agent, write_agent, write_agent_memory, sqlite_delete_agent, edit_session_rules, DropLiving,
                list_agents, ReadRecord, sqlite_load_agent
  <2> QED BY <1>1, <2>1
<1>10. ASSUME now_secs \/ UNCHANGED sqliteVars PROVE HeldIsClaimed' /\ LettersAreClaimedOnce'
  BY <1>1, <1>10 DEF now_secs, sqliteVars
<1> QED BY <1>2, <1>3, <1>4, <1>5, <1>6, <1>7, <1>8, <1>9, <1>10 DEF SqliteNext

----------------------------------------------------------------------------

\* The empty database satisfies the invariant.
LEMMA InitInv == SqliteInit => SqliteInv
<1> SUFFICES ASSUME SqliteInit PROVE SqliteInv
  OBVIOUS
<1>1. /\ records = {} /\ sessionRules = {} /\ now = 0 /\ \A p \in Processes : living[p] = {} /\ proc[p] = Fresh /\ reading[p] = NotReading
  BY DEF SqliteInit
<1>2. NotReading.pc = "idle" /\ NotReading.answer \notin {"missing", "disappeared"}
  BY NothingAssumption DEF NotReading
<1>3. GrantsAreRows
  BY <1>1, FreshProc DEF GrantsAreRows
<1>4. RowsAreThere /\ MissingRowsWereDeleted
  BY <1>1, <1>2 DEF RowsAreThere, MissingRowsWereDeleted
<1>5. HeldIsClaimed /\ LettersAreClaimedOnce
  BY <1>1, FreshProc DEF HeldIsClaimed, LettersAreClaimedOnce
<1> QED BY <1>3, <1>4, <1>5, InitTypes DEF SqliteInv

\* SharedDatabaseIsSafe, for any processes, agents, letters and bounds: of the live
\* processes at most one holds a lease that has not run out, a load or listing
\* that misses a row misses one that was deleted under its reader or holder, as was
\* the agent of session rules without a record, and a letter is in one process's hands until it is returned to the inbox.
THEOREM DatabaseIsAlwaysSafe == SqliteSpec => []SharedDatabaseIsSafe
<1>1. SqliteInv /\ [SqliteNext]_sqliteVars => SqliteInv'
  BY StepTypes, StepGrants, StepRows, StepLetters DEF SqliteInv
<1>2. SqliteInv => SharedDatabaseIsSafe
  <2> SUFFICES ASSUME SqliteInv PROVE OneLeaseHolder /\ RulesHaveTheirAgent
    BY DEF SqliteInv, SharedDatabaseIsSafe
  <2>1. OneLeaseHolder
    BY DEF SqliteInv, GrantsAreRows, OneLeaseHolder, Alive
  <2>2. RulesHaveTheirAgent
    BY DEF SqliteInv, SqliteTypeOK, RowsAreThere, RulesHaveTheirAgent
  <2> QED BY <2>1, <2>2
<1> QED BY <1>1, <1>2, InitInv, PTL DEF SqliteSpec
=============================================================================
