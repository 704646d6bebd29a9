--------------------------- MODULE FileStoreProofs ---------------------------
(***************************************************************************)
(* The files of an agent implement the store's contract, for every number  *)
(* of processes, entries, record versions, failed writes and deaths, as    *)
(* long as hosts do not resume or delete an agent that is in use.  The     *)
(* invariant says what is on disk and in memory at each step of the one    *)
(* process that has the agent.                                             *)
(***************************************************************************)
EXTENDS FileStore, WellFoundedInduction, TLAPS

-----------------------------------------------------------------------------
(* The inductive invariant.                                                *)

Tails == [id : {0} \union Ids, whole : BOOLEAN]
FileStates == [lines : SUBSET Ids, tail : Tails, junk : BOOLEAN,
               state : MemoryState \union {None}, leaf : Ids \union {None}, record : 0..MaxRecords]
Indexes == [loaded : BOOLEAN, ids : SUBSET Ids]
ProcStates == [live : BOOLEAN, next : {"none", "record", "lease"}, memory : MemoryState,
               record : 0..MaxRecords, index : Indexes]
CallSteps == {"none", "append", "state", "leaf", "record", "unlink", "directory", "rules"}
CallStates == [kind : {"idle", "create", "memory", "record", "delete"}, record : 0..MaxRecords,
               memory : MemoryState \union {None}, step : CallSteps, done : BOOLEAN,
               result : {"none", "ok", "error"}]

\* A listed agent loads from whole lines of the log, its leaf is one of them,
\* and no id is ahead of the next one.
FilesOk(f, next) ==
    /\ ~f.junk
    /\ f.record # 0 => /\ f.state # None /\ entries_of(f.state) \subseteq f.lines
                       /\ f.leaf # None => f.leaf \in f.lines
    /\ \A id \in f.lines \union {f.tail.id} : id < next
    /\ f.tail.whole => f.tail.id # 0

\* What a process knows of the log is there, as far as its memory names it; a
\* line without its newline is nothing an unread log was counted on for.
KnowsLog(process, f, next) ==
    /\ process.index.ids \intersect entries_of(process.memory) \subseteq f.lines
    /\ ~process.index.loaded /\ f.tail.id \in entries_of(process.memory) => f.tail.id \in f.lines
    /\ \A id \in process.index.ids \union entries_of(process.memory) : id < next

Engaged(process) == process.live \/ process.next # "none"

\* A process without the agent names nothing; one that has it finds it listed,
\* but while it creates it.
HasAgent(process, call, f) ==
    /\ ~Engaged(process) => process.memory = NewMemory
    /\ Engaged(process) => /\ process.record # 0 /\ call.kind # "delete"
                           /\ call.kind # "create" => f.record # 0
    /\ call.kind \in {"create", "memory", "record"} => Engaged(process)

\* What is on disk at each step of an operation.
CallOk(process, call, f) ==
    /\ call.kind = "create" =>
          /\ ~process.live /\ process.memory = NewMemory
          /\ call.record = 1 /\ call.memory = NewMemory /\ ~call.done /\ f.record = 0
          /\ call.step \in {"append", "state", "leaf", "record"}
          /\ call.step \in {"leaf", "record"} => f.state = NewMemory
          /\ call.step = "record" => f.leaf = None
    /\ call.kind = "memory" =>
          /\ call.memory = process.memory
          /\ call.step \in {"append", "state", "leaf"}
          /\ call.done <=> call.step = "leaf"
          /\ call.step # "append" => entries_of(process.memory) \subseteq f.lines
    /\ call.kind = "record" => call.step = "record" /\ ~call.done /\ call.record # 0
    /\ call.kind = "delete" =>
          /\ call.step \in {"unlink", "directory", "rules"}
          /\ call.done <=> call.step # "unlink"
          /\ call.step # "unlink" => f.record = 0
          /\ call.step = "rules" => f = EmptyFiles

ProcOk(process, call, f, next) ==
    KnowsLog(process, f, next) /\ HasAgent(process, call, f) /\ CallOk(process, call, f)

\* One process at a time has the agent or is in an operation on it.
OneAtATime == \A p, q \in Runtimes : Quiet(p) \/ Quiet(q) \/ p = q

StoreInv ==
    /\ TypeOK /\ calls \in [Runtimes -> CallStates]
    /\ OneAtATime /\ FilesOk(files, fresh)
    /\ \A p \in Runtimes : ProcOk(procs[p], calls[p], files, fresh)

-----------------------------------------------------------------------------
(* What every step rests on.                                               *)

\* leaf of a memory names one of its entries.
LEMMA MaxIsThere ==
    ASSUME NEW S \in SUBSET Ids, S # {}
    PROVE  Max(S) \in S
<1> DEFINE R == OpToRel(<, Nat)
           Above == {n \in Nat : \A x \in S : x <= n}
<1> USE StoreAssumption DEF Ids
<1>1. IsWellFoundedOn(R, Nat)
  BY NatLessThanWellFounded, Zenon
<1>2. MaxEntries \in Above
  OBVIOUS
<1>3. PICK m \in Above : \A n \in Above : ~(<<n, m>> \in R)
  <2> HIDE DEF R, Above
  <2>1. Above \subseteq Nat
    BY DEF Above
  <2> QED
    BY <1>1, <1>2, <2>1, WFMin, Zenon
<1>4. \A n \in Above : ~(n < m)
  BY <1>3, Zenon DEF OpToRel
<1>5. m \in S
  <2> SUFFICES ASSUME m \notin S PROVE FALSE
    OBVIOUS
  <2>1. m \in Nat /\ \A x \in S : x \in Nat /\ 1 <= x /\ x < m
    OBVIOUS
  <2> HIDE DEF Above
  <2>2. PICK least \in S : TRUE
    BY Zenon
  <2>3. m - 1 \in Nat /\ m - 1 < m
    BY <2>1, <2>2
  <2>4. ASSUME NEW x \in S PROVE x <= m - 1
    BY <2>1, <2>3
  <2>5. m - 1 \in Above
    BY <2>3, <2>4 DEF Above
  <2> QED
    BY <2>3, <2>5, <1>4
<1>6. \A y \in S : m >= y
  OBVIOUS
<1> QED
  BY <1>5, <1>6, Zenon DEF Max

\* The types, by name.
LEMMA Types ==
    TypeOK <=> /\ files \in FileStates /\ rules \in BOOLEAN /\ lease \in Runtimes \union {None}
               /\ procs \in [Runtimes -> ProcStates]
               /\ \A p \in Runtimes : calls[p].memory \in MemoryState \union {None} /\ calls[p].done \in BOOLEAN
               /\ fresh \in 1..(MaxEntries + 1) /\ troubles \in 0..MaxTroubles
BY DEF TypeOK, FileStates, Tails, ProcStates, Indexes

\* The process without the agent, and the operation that has ended, are states.
LEMMA Resting ==
    /\ NewMemory \in MemoryState /\ NewProcess \in ProcStates /\ EmptyFiles \in FileStates
    /\ \A process \in ProcStates : Without(process) \in ProcStates
    /\ \A r \in {"none", "ok", "error"} : Idle(r) \in CallStates
<1> USE StoreAssumption
<1>1. NewMemory \in MemoryState
  BY DEF NewMemory, MemoryState
<1>2. NewProcess \in ProcStates
  BY <1>1 DEF NewProcess, NoIndex, ProcStates, Indexes
<1>3. EmptyFiles \in FileStates
  BY DEF EmptyFiles, NoTail, FileStates, Tails
<1>4. ASSUME NEW process \in ProcStates PROVE Without(process) \in ProcStates
  BY <1>2 DEF Without, ProcStates
<1>5. ASSUME NEW r \in {"none", "ok", "error"} PROVE Idle(r) \in CallStates
  BY DEF Idle, CallStates, CallSteps
<1> QED
  BY <1>1, <1>2, <1>3, <1>4, <1>5

\* A process that is at rest says nothing of the files.
LEMMA RestingOk ==
    ASSUME NEW process \in ProcStates, NEW call \in CallStates, ~Engaged(process), call.kind = "idle",
           process.memory = NewMemory, NEW f, NEW n \in Nat, \A id \in process.index.ids : id < n
    PROVE  ProcOk(process, call, f, n)
<1>1. entries_of(process.memory) = {}
  BY DEF entries_of, NewMemory
<1> QED
  BY <1>1 DEF ProcOk, KnowsLog, HasAgent, CallOk

\* A step of the one process that is not quiet.
LEMMA OneSteps ==
    ASSUME StoreInv, NEW p \in Runtimes, \A q \in Runtimes \ {p} : Quiet(q),
           NEW process \in ProcStates, NEW call \in CallStates,
           procs' = [procs EXCEPT ![p] = process], calls' = [calls EXCEPT ![p] = call],
           files' \in FileStates, rules' \in BOOLEAN, lease' \in Runtimes \union {None},
           fresh' \in 1..(MaxEntries + 1), fresh <= fresh', troubles' \in 0..MaxTroubles,
           FilesOk(files', fresh'), ProcOk(process, call, files', fresh')
    PROVE  StoreInv'
<1> USE StoreAssumption
<1>1. /\ procs \in [Runtimes -> ProcStates] /\ calls \in [Runtimes -> CallStates]
      /\ fresh \in 1..(MaxEntries + 1)
  BY Types DEF StoreInv
<1>2. procs' \in [Runtimes -> ProcStates] /\ calls' \in [Runtimes -> CallStates]
  BY <1>1
<1>3. procs'[p] = process /\ calls'[p] = call
  BY <1>1
<1>4. \A q \in Runtimes \ {p} : procs'[q] = procs[q] /\ calls'[q] = calls[q]
  BY <1>1
<1>5. TypeOK'
  <2>1. \A q \in Runtimes : calls'[q].memory \in MemoryState \union {None} /\ calls'[q].done \in BOOLEAN
    BY <1>2 DEF CallStates
  <2> QED
    BY <2>1, <1>2 DEF TypeOK, FileStates, Tails, ProcStates, Indexes
<1>6. OneAtATime'
  <2>1. \A q \in Runtimes \ {p} : Quiet(q)'
    BY <1>4 DEF Quiet
  <2> QED
    BY <2>1 DEF OneAtATime
<1>7. ASSUME NEW q \in Runtimes PROVE ProcOk(procs'[q], calls'[q], files', fresh')
  <2>1. CASE q = p
    BY <2>1, <1>3
  <2>2. CASE q # p
    <3>1. /\ procs[q] \in ProcStates /\ calls[q] \in CallStates /\ ~Engaged(procs[q]) /\ calls[q].kind = "idle"
          /\ procs'[q] = procs[q] /\ calls'[q] = calls[q]
      BY <2>2, <1>1, <1>4 DEF Quiet, Engaged
    <3>2. procs[q].memory = NewMemory /\ \A id \in procs[q].index.ids : id < fresh
      BY <3>1 DEF StoreInv, ProcOk, HasAgent, KnowsLog
    <3>3. \A id \in procs[q].index.ids : id < fresh'
      <4>1. procs[q].index.ids \subseteq Nat
        BY <3>1 DEF ProcStates, Indexes, Ids
      <4> QED
        BY <3>2, <4>1, <1>1
    <3>4. fresh' \in Nat
      OBVIOUS
    <3> QED
      BY <3>1, <3>2, <3>3, <3>4, RestingOk
  <2> QED
    BY <2>1, <2>2
<1> QED
  BY <1>2, <1>5, <1>6, <1>7 DEF StoreInv

\* The others are quiet while one is not.
LEMMA OthersQuiet ==
    ASSUME StoreInv, NEW p \in Runtimes, ~Quiet(p)
    PROVE  \A q \in Runtimes \ {p} : Quiet(q)
BY DEF StoreInv, OneAtATime

\* A process that lets go of the agent, or of what it knew, keeps the rest.
LEMMA LetsGo ==
    ASSUME StoreInv, NEW p \in Runtimes, NEW process \in ProcStates, NEW call \in CallStates,
           ~Engaged(process), process.memory = NewMemory, call.kind = "idle",
           \A id \in process.index.ids : id < fresh,
           procs' = [procs EXCEPT ![p] = process], calls' = [calls EXCEPT ![p] = call],
           lease' \in Runtimes \union {None}, troubles' \in 0..MaxTroubles, UNCHANGED <<files, rules, fresh>>
    PROVE  StoreInv'
<1> USE StoreAssumption
<1>1. /\ procs \in [Runtimes -> ProcStates] /\ calls \in [Runtimes -> CallStates]
      /\ fresh \in 1..(MaxEntries + 1)
  BY Types DEF StoreInv
<1>2. procs' \in [Runtimes -> ProcStates] /\ calls' \in [Runtimes -> CallStates]
  BY <1>1
<1>3. procs'[p] = process /\ calls'[p] = call
  BY <1>1
<1>4. \A q \in Runtimes \ {p} : procs'[q] = procs[q] /\ calls'[q] = calls[q]
  BY <1>1
<1>5. TypeOK'
  <2>1. \A q \in Runtimes : calls'[q].memory \in MemoryState \union {None} /\ calls'[q].done \in BOOLEAN
    BY <1>2 DEF CallStates
  <2> QED
    BY <2>1, <1>2 DEF StoreInv, TypeOK, FileStates, Tails, ProcStates, Indexes
<1>6. OneAtATime'
  <2>1. Quiet(p)'
    BY <1>3 DEF Quiet, Engaged
  <2>2. \A q \in Runtimes \ {p} : Quiet(q) => Quiet(q)'
    BY <1>4 DEF Quiet
  <2> QED
    BY <2>1, <2>2 DEF OneAtATime, StoreInv
<1>7. ASSUME NEW q \in Runtimes PROVE ProcOk(procs'[q], calls'[q], files', fresh')
  <2>1. CASE q = p
    <3>1. fresh \in Nat
      BY <1>1
    <3>2. ProcOk(process, call, files, fresh)
      BY <3>1, RestingOk
    <3> QED
      BY <2>1, <1>3, <3>2
  <2>2. CASE q # p
    BY <2>2, <1>4 DEF StoreInv
  <2> QED
    BY <2>1, <2>2
<1>8. FilesOk(files', fresh')
  BY DEF StoreInv
<1> QED
  BY <1>2, <1>5, <1>6, <1>7, <1>8 DEF StoreInv

\* The process dies wherever it is.
LEMMA DieKeeps ==
    ASSUME StoreInv, NEW p \in Runtimes, Die(p), UNCHANGED <<files, rules, fresh>>, troubles' \in 0..MaxTroubles
    PROVE  StoreInv'
<1>1. /\ procs \in [Runtimes -> ProcStates] /\ calls \in [Runtimes -> CallStates]
      /\ lease \in Runtimes \union {None}
  BY Types DEF StoreInv
<1>2. /\ ~Engaged(NewProcess) /\ NewProcess.memory = NewMemory /\ NewProcess.index.ids = {}
      /\ Idle("error").kind = "idle"
  BY DEF Engaged, NewProcess, NoIndex, Idle
<1>3. procs' = [procs EXCEPT ![p] = NewProcess] /\ lease' \in Runtimes \union {None}
  BY <1>1 DEF Die
<1>4. PICK call \in CallStates : call.kind = "idle" /\ calls' = [calls EXCEPT ![p] = call]
  <2>1. CASE calls[p].kind = "idle"
    <3>1. calls' = [calls EXCEPT ![p] = calls[p]] /\ calls[p] \in CallStates
      BY <2>1, <1>1 DEF Die
    <3> QED
      BY <2>1, <3>1, Zenon
  <2>2. CASE calls[p].kind # "idle"
    <3>1. calls' = [calls EXCEPT ![p] = Idle("error")]
      BY <2>2 DEF Die
    <3> QED
      BY <3>1, <1>2, Resting, Zenon
  <2> QED
    BY <2>1, <2>2
<1> QED
  BY <1>2, <1>3, <1>4, Resting, LetsGo, Zenon

\* An operation that fails or dies with its process leaves files f behind.
LEMMA BrokenKeeps ==
    ASSUME StoreInv, NEW p \in Runtimes, calls[p].kind # "idle", NEW f \in FileStates, NEW index \in Indexes,
           Broken(p, f, index), FilesOk(f, fresh), \A id \in index.ids : id < fresh,
           procs[p].live => f.record # 0 /\ KnowsLog([procs[p] EXCEPT !.index = index], f, fresh)
    PROVE  StoreInv'
<1> USE StoreAssumption
<1>1. /\ procs \in [Runtimes -> ProcStates] /\ calls \in [Runtimes -> CallStates]
      /\ fresh \in 1..(MaxEntries + 1) /\ fresh \in Nat /\ rules \in BOOLEAN /\ lease \in Runtimes \union {None}
      /\ troubles \in 0..MaxTroubles
  BY Types DEF StoreInv
<1>2. files' = f /\ rules' = rules /\ fresh' = fresh /\ troubles' \in 0..MaxTroubles /\ fresh <= fresh'
  BY <1>1 DEF Broken
<1>3. \A q \in Runtimes \ {p} : Quiet(q)
  <2>1. ~Quiet(p)
    BY DEF Quiet
  <2> QED
    BY <2>1, OthersQuiet
<1>4. Idle("error") \in CallStates /\ Idle("error").kind = "idle"
  BY Resting DEF Idle
<1>5. ASSUME NEW process \in ProcStates, procs' = [procs EXCEPT ![p] = process], ~process.live,
             ~Engaged(process), process.memory = NewMemory, \A id \in process.index.ids : id < fresh,
             calls' = [calls EXCEPT ![p] = Idle("error")], lease' \in Runtimes \union {None}
      PROVE  StoreInv'
  <2>1. ProcOk(process, Idle("error"), f, fresh)
    BY <1>1, <1>4, <1>5, RestingOk
  <2>2. FilesOk(files', fresh') /\ ProcOk(process, Idle("error"), files', fresh') /\ files' \in FileStates
    BY <1>2, <2>1
  <2>3. rules' \in BOOLEAN /\ fresh' \in 1..(MaxEntries + 1)
    BY <1>1, <1>2
  <2> QED
    BY <1>2, <1>3, <1>4, <1>5, <2>2, <2>3, OneSteps, Zenon
<1>6. CASE Die(p)
  <2>1. /\ ~Engaged(NewProcess) /\ ~NewProcess.live /\ NewProcess.memory = NewMemory /\ NewProcess.index.ids = {}
        /\ NewProcess \in ProcStates
    BY Resting DEF Engaged, NewProcess, NoIndex
  <2>2. procs' = [procs EXCEPT ![p] = NewProcess] /\ lease' \in Runtimes \union {None}
    BY <1>1, <1>6 DEF Die
  <2>3. calls' = [calls EXCEPT ![p] = Idle("error")]
    BY <1>6 DEF Die
  <2> QED
    BY <1>5, <2>1, <2>2, <2>3, Zenon
<1>7. CASE /\ Ended(p, "error")
           /\ procs' = [procs EXCEPT ![p] = [(IF @.live THEN @ ELSE Without(@)) EXCEPT !.index = index]]
           /\ UNCHANGED lease
  <2>1. calls' = [calls EXCEPT ![p] = Idle("error")] /\ lease' \in Runtimes \union {None}
    BY <1>1, <1>7 DEF Ended
  <2>2. CASE ~procs[p].live
    <3> DEFINE process == [Without(procs[p]) EXCEPT !.index = index]
    <3>1. procs' = [procs EXCEPT ![p] = process]
      BY <1>7, <2>2
    <3>2. /\ process \in ProcStates /\ ~process.live /\ ~Engaged(process) /\ process.memory = NewMemory
          /\ process.index = index
      BY Resting, <1>1, Zenon DEF Without, NewProcess, NoIndex, Engaged, ProcStates
    <3> HIDE DEF process
    <3> QED
      BY <1>5, <2>1, <3>1, <3>2, Zenon
  <2>3. CASE procs[p].live
    <3> DEFINE process == [procs[p] EXCEPT !.index = index]
    <3>1. procs' = [procs EXCEPT ![p] = process]
      BY <1>7, <2>3
    <3>2. /\ process \in ProcStates /\ process.live /\ process.record = procs[p].record
          /\ process.memory = procs[p].memory /\ process.index = index
      BY <2>3, <1>1 DEF ProcStates
    <3>3. process.record # 0
      BY <2>3, <3>2 DEF StoreInv, ProcOk, HasAgent, Engaged
    <3>4. KnowsLog(process, f, fresh) /\ f.record # 0
      BY <2>3
    <3> HIDE DEF process
    <3>5. ProcOk(process, Idle("error"), f, fresh)
      BY <3>2, <3>3, <3>4, <1>4 DEF ProcOk, HasAgent, CallOk, Engaged
    <3>6. FilesOk(files', fresh') /\ ProcOk(process, Idle("error"), files', fresh') /\ files' \in FileStates
      BY <1>2, <3>5
    <3>7. rules' \in BOOLEAN /\ fresh' \in 1..(MaxEntries + 1)
      BY <1>1, <1>2
    <3> QED
      BY <1>2, <1>3, <1>4, <2>1, <3>1, <3>2, <3>6, <3>7, OneSteps, Zenon
  <2> QED
    BY <2>2, <2>3
<1> QED
  BY <1>6, <1>7 DEF Broken

-----------------------------------------------------------------------------
(* What the runtime asks of the store.                                     *)

\* What the invariant says of one process.
LEMMA Facts ==
    ASSUME StoreInv, NEW p \in Runtimes
    PROVE  /\ procs \in [Runtimes -> ProcStates] /\ calls \in [Runtimes -> CallStates]
           /\ procs[p] \in ProcStates /\ calls[p] \in CallStates /\ files \in FileStates
           /\ fresh \in 1..(MaxEntries + 1) /\ fresh \in Nat
           /\ rules \in BOOLEAN /\ lease \in Runtimes \union {None} /\ troubles \in 0..MaxTroubles
           /\ FilesOk(files, fresh)
           /\ KnowsLog(procs[p], files, fresh) /\ HasAgent(procs[p], calls[p], files)
           /\ CallOk(procs[p], calls[p], files)
BY StoreAssumption, Types DEF StoreInv, ProcOk

\* An operation begins as a state of its process.
LEMMA CallType ==
    ASSUME NEW kind \in {"create", "memory", "record", "delete"}, NEW step \in CallSteps,
           NEW record \in 0..MaxRecords, NEW memory \in MemoryState \union {None}
    PROVE  /\ Call(kind, step, record, memory) \in CallStates
           /\ Call(kind, step, record, memory).kind = kind /\ Call(kind, step, record, memory).step = step
           /\ Call(kind, step, record, memory).record = record /\ Call(kind, step, record, memory).memory = memory
           /\ ~Call(kind, step, record, memory).done
BY DEF Call, CallStates, CallSteps

\* A process that takes the agent, or claims its id.
Taken(old, next, m, r) == [old EXCEPT !.next = next, !.memory = m, !.record = r]
Claimed(old, r) == [old EXCEPT !.next = "lease", !.record = r]

\* Either is a state of its process.
LEMMA Taking ==
    ASSUME NEW old \in ProcStates, NEW next \in {"none", "record", "lease"}, NEW m \in MemoryState,
           NEW r \in 0..MaxRecords
    PROVE  /\ Taken(old, next, m, r) \in ProcStates /\ Taken(old, next, m, r).next = next
           /\ Taken(old, next, m, r).memory = m /\ Taken(old, next, m, r).record = r
           /\ Taken(old, next, m, r).index = old.index /\ Taken(old, next, m, r).live = old.live
           /\ Claimed(old, r) \in ProcStates /\ Claimed(old, r).next = "lease"
           /\ Claimed(old, r).memory = old.memory /\ Claimed(old, r).record = r
           /\ Claimed(old, r).index = old.index /\ Claimed(old, r).live = old.live
BY Zenon DEF ProcStates, Taken, Claimed

\* The files stay as good when the next id moves on.
LEMMA Later ==
    ASSUME NEW f \in FileStates, NEW n \in Nat, FilesOk(f, n)
    PROVE  FilesOk(f, n + 1)
<1>1. f.lines \union {f.tail.id} \subseteq Nat
  BY StoreAssumption DEF FileStates, Tails, Ids
<1> QED
  BY <1>1 DEF FilesOk

\* A memory made of entries that are known, and of the next one.
LEMMA Remembers ==
    ASSUME NEW process \in ProcStates, NEW f \in FileStates, fresh \in Nat, FilesOk(f, fresh), NEW old \in SUBSET Ids,
           process.index.ids \intersect old \subseteq f.lines,
           ~process.index.loaded /\ f.tail.id \in old => f.tail.id \in f.lines,
           \A id \in process.index.ids \union old : id < fresh,
           NEW next \in {fresh, fresh + 1},
           entries_of(process.memory) \subseteq old \union (IF next = fresh THEN {} ELSE {fresh})
    PROVE  KnowsLog(process, f, next)
<1>1. process.index.ids \subseteq Nat /\ old \subseteq Nat
  BY StoreAssumption DEF ProcStates, Indexes, Ids
<1>2. fresh \notin process.index.ids /\ fresh # f.tail.id
  BY <1>1 DEF FilesOk
<1>3. ASSUME NEW id \in process.index.ids \union old PROVE id < next
  <2>1. id \in Nat /\ id < fresh
    BY <1>1, Zenon
  <2> QED
    BY <2>1
<1>4. \A id \in entries_of(process.memory) : id < next
  BY <1>3
<1> QED
  BY <1>2, <1>3, <1>4 DEF KnowsLog

\* A memory that follows another, or recovers it, names nothing else.
LEMMA FollowingMemory ==
    ASSUME NEW m \in MemoryState, fresh \in 1..(MaxEntries + 1), \A id \in entries_of(m) : id < fresh,
           NEW n \in Successors(m) \union Recovered(m)
    PROVE  LET next == IF fresh \in n.entries THEN fresh + 1 ELSE fresh
           IN  /\ n \in MemoryState /\ next \in {fresh, fresh + 1} /\ next \in 1..(MaxEntries + 1) /\ fresh <= next
               /\ entries_of(n) \subseteq entries_of(m) \union (IF next = fresh THEN {} ELSE {fresh})
<1> USE StoreAssumption
<1>1. /\ n \in MemoryState /\ n.entries \subseteq m.entries \union m.base \union {fresh}
      /\ n.base \subseteq m.base \union m.entries
      /\ fresh \in n.entries => fresh \in Ids \/ fresh \in m.entries \union m.base
  <2>1. m.entries \in SUBSET Ids /\ m.base \in SUBSET Ids /\ m.run \in BOOLEAN
    BY DEF MemoryState
  <2>2. CASE n \in Recovered(m)
    <3>1. PICK e : /\ e \in {m.base, m.entries} \/ (fresh \in Ids /\ e = m.entries \union {fresh})
                   /\ n = [entries |-> e, base |-> {}, run |-> FALSE]
      BY <2>2 DEF Recovered
    <3>2. e \in SUBSET Ids /\ n.entries = e /\ n.base = {}
      BY <2>1, <3>1
    <3>3. n \in MemoryState
      BY <3>1, <3>2 DEF MemoryState
    <3> QED
      BY <3>1, <3>2, <3>3
  <2>3. CASE n \in Successors(m)
    <3>1. PICK e, b, r :
              /\ \/ e \in {m.base, m.entries}
                 \/ fresh \in Ids /\ e \in {m.entries \union {fresh}, {fresh}}
              /\ b \in {{}, m.base, m.entries} /\ r \in BOOLEAN
              /\ n = [entries |-> e, base |-> b, run |-> r]
      <4>1. CASE \E e \in {m.entries, m.base} : n = [entries |-> e, base |-> {}, run |-> FALSE]
        BY <4>1, Zenon
      <4>2. CASE fresh \in Ids /\ n = [entries |-> m.entries \union {fresh}, base |-> m.entries, run |-> TRUE]
        BY <4>2, Zenon
      <4>3. ASSUME NEW e \in {m.entries \union {fresh}, {fresh}}, fresh \in Ids, n = [m EXCEPT !.entries = e]
            PROVE  fresh \in Ids /\ n = [entries |-> e, base |-> m.base, run |-> m.run]
        BY <4>3 DEF MemoryState
      <4>4. CASE fresh \in Ids /\ \E e \in {m.entries \union {fresh}, {fresh}} : n = [m EXCEPT !.entries = e]
        BY <2>1, <4>3, <4>4, Zenon
      <4> QED
        BY <2>3, <4>1, <4>2, <4>4 DEF Successors
    <3>2. e \in SUBSET Ids /\ b \in SUBSET Ids /\ n.entries = e /\ n.base = b
      BY <2>1, <3>1
    <3>3. n \in MemoryState
      BY <3>1, <3>2 DEF MemoryState
    <3> QED
      BY <3>1, <3>2, <3>3
  <2> QED
    BY <2>2, <2>3
<1>2. fresh \notin m.entries \union m.base
  BY DEF entries_of, MemoryState, Ids
<1>3. fresh \in n.entries => fresh \in 1..MaxEntries
  BY <1>1, <1>2 DEF Ids
<1>4. entries_of(n) \subseteq entries_of(m) \union (IF fresh \in n.entries THEN {fresh} ELSE {})
  BY <1>1, <1>2 DEF entries_of
<1> QED
  BY <1>1, <1>3, <1>4

\* Agent::new finds nothing and nobody.
LEMMA SpawnKeeps == ASSUME ~Contended, StoreInv, NEW p \in Runtimes, Spawn(p) PROVE StoreInv'
<1> DEFINE process == [NewProcess EXCEPT !.next = "lease", !.record = 1]
           call == Call("create", "append", 1, NewMemory)
<1>1. procs' = [procs EXCEPT ![p] = process] /\ calls' = [calls EXCEPT ![p] = call]
  BY DEF Spawn
<1>2. /\ process \in ProcStates /\ ~process.live /\ process.next = "lease" /\ process.record = 1
      /\ process.memory = NewMemory /\ process.index = NoIndex
  <2>1. NewProcess \in ProcStates /\ 1 \in 0..MaxRecords /\ NewMemory \in MemoryState
    BY Resting, StoreAssumption
  <2>2. ~NewProcess.live /\ NewProcess.memory = NewMemory /\ NewProcess.index = NoIndex
    BY DEF NewProcess
  <2>3. process = Claimed(NewProcess, 1)
    BY DEF Claimed
  <2> HIDE DEF process
  <2> QED
    BY <2>1, <2>2, <2>3, Taking
<1>3. /\ call \in CallStates /\ call.kind = "create" /\ call.step = "append" /\ call.record = 1
      /\ call.memory = NewMemory /\ ~call.done
  BY Resting, StoreAssumption, CallType DEF CallSteps
<1>4. files = EmptyFiles /\ \A q \in Runtimes : Quiet(q)
  BY DEF Spawn, Alone
<1> HIDE DEF process, call
<1>5. ProcOk(process, call, files, fresh)
  <2>1. entries_of(process.memory) = {} /\ process.index.ids = {} /\ files.record = 0
    BY <1>2, <1>4 DEF entries_of, NewMemory, NoIndex, EmptyFiles
  <2> QED
    BY <1>2, <1>3, <2>1 DEF ProcOk, KnowsLog, HasAgent, CallOk, Engaged
<1>6. UNCHANGED <<files, rules, lease, fresh, troubles>>
  BY DEF Spawn
<1>7. /\ ProcOk(process, call, files', fresh') /\ FilesOk(files', fresh') /\ files' \in FileStates
      /\ rules' \in BOOLEAN /\ lease' \in Runtimes \union {None} /\ troubles' \in 0..MaxTroubles
      /\ fresh' \in 1..(MaxEntries + 1) /\ fresh <= fresh' /\ \A q \in Runtimes \ {p} : Quiet(q)
  BY <1>4, <1>5, <1>6, Facts, StoreAssumption
<1> QED
  BY <1>1, <1>2, <1>3, <1>7, OneSteps, Zenon

\* A save begins with the memory changed.
LEMMA PersistKeeps == ASSUME StoreInv, NEW p \in Runtimes, Persist(p) PROVE StoreInv'
<1> USE Facts
<1>1. PICK m \in Successors(procs[p].memory) :
          /\ procs' = [procs EXCEPT ![p].memory = m]
          /\ calls' = [calls EXCEPT ![p] = Call("memory", "append", 0, m)]
          /\ fresh' = IF fresh \in m.entries THEN fresh + 1 ELSE fresh
  BY Zenon DEF Persist
<1> DEFINE process == [procs[p] EXCEPT !.memory = m]
           call == Call("memory", "append", 0, m)
<1>2. procs[p].memory \in MemoryState /\ \A id \in entries_of(procs[p].memory) : id < fresh
  BY DEF ProcStates, KnowsLog
<1>3. /\ m \in MemoryState /\ fresh' \in {fresh, fresh + 1} /\ fresh' \in 1..(MaxEntries + 1) /\ fresh <= fresh'
      /\ entries_of(m) \subseteq entries_of(procs[p].memory) \union (IF fresh' = fresh THEN {} ELSE {fresh})
  BY <1>1, <1>2, FollowingMemory
<1>4. procs' = [procs EXCEPT ![p] = process] /\ calls' = [calls EXCEPT ![p] = call]
  BY <1>1
<1>5. /\ process \in ProcStates /\ process.live = procs[p].live /\ process.next = procs[p].next
      /\ process.record = procs[p].record /\ process.memory = m /\ process.index = procs[p].index
  BY <1>3 DEF ProcStates
<1>6. /\ call \in CallStates /\ call.kind = "memory" /\ call.step = "append" /\ call.memory = m /\ ~call.done
  BY <1>3, CallType, StoreAssumption DEF CallSteps
<1> HIDE DEF process, call
<1>7. KnowsLog(process, files, fresh')
  <2>1. entries_of(procs[p].memory) \in SUBSET Ids
    BY <1>2 DEF entries_of, MemoryState
  <2>2. /\ process.index.ids \intersect entries_of(procs[p].memory) \subseteq files.lines
        /\ ~process.index.loaded /\ files.tail.id \in entries_of(procs[p].memory) => files.tail.id \in files.lines
        /\ \A id \in process.index.ids \union entries_of(procs[p].memory) : id < fresh
    BY <1>5 DEF KnowsLog
  <2>3. entries_of(process.memory)
            \subseteq entries_of(procs[p].memory) \union (IF fresh' = fresh THEN {} ELSE {fresh})
    BY <1>3, <1>5
  <2> QED
    BY <1>3, <1>5, <2>1, <2>2, <2>3, Remembers
<1>8. procs[p].live /\ calls[p].kind = "idle" /\ UNCHANGED <<files, rules, lease, troubles>>
  BY DEF Persist
<1>9. HasAgent(process, call, files) /\ CallOk(process, call, files)
  BY <1>5, <1>6, <1>8 DEF HasAgent, CallOk, Engaged
<1>10. FilesOk(files', fresh')
  BY <1>3, <1>8, Later
<1>11. \A q \in Runtimes \ {p} : Quiet(q)
  BY <1>8, OthersQuiet DEF Quiet
<1>12. ProcOk(process, call, files', fresh') /\ files' \in FileStates
  BY <1>7, <1>8, <1>9 DEF ProcOk
<1>13. rules' \in BOOLEAN /\ lease' \in Runtimes \union {None} /\ troubles' \in 0..MaxTroubles
  BY <1>8
<1> QED
  BY <1>3, <1>4, <1>5, <1>6, <1>10, <1>11, <1>12, <1>13, OneSteps, Zenon

\* So does a save of the record, of a live agent or of one being resumed.
LEMMA RecordRequestKeeps ==
    ASSUME StoreInv, NEW p \in Runtimes, persist_agent_record(p) \/ ResumeRecord(p)
    PROVE  StoreInv'
<1> USE Facts, StoreAssumption
<1>1. Engaged(procs[p]) /\ calls[p].kind = "idle" /\ UNCHANGED <<files, rules, lease, fresh, troubles>>
  BY DEF persist_agent_record, ResumeRecord, Engaged
<1>2. PICK process \in ProcStates, record \in 1..MaxRecords :
          /\ procs' = [procs EXCEPT ![p] = process]
          /\ calls' = [calls EXCEPT ![p] = Call("record", "record", record, None)]
          /\ process.memory = procs[p].memory /\ process.index = procs[p].index
          /\ Engaged(process) /\ process.record # 0
  <2>1. procs[p].record \in 1..MaxRecords
    BY <1>1 DEF HasAgent, ProcStates
  <2>2. CASE persist_agent_record(p)
    <3> DEFINE process == [procs[p] EXCEPT !.record = @ + 1]
    <3>1. /\ procs' = [procs EXCEPT ![p] = process] /\ procs[p].record + 1 \in 1..MaxRecords
          /\ calls' = [calls EXCEPT ![p] = Call("record", "record", procs[p].record + 1, None)]
      BY <2>1, <2>2 DEF persist_agent_record
    <3>2. /\ process \in ProcStates /\ process.record = procs[p].record + 1 /\ process.live = procs[p].live
          /\ process.memory = procs[p].memory /\ process.index = procs[p].index
      BY <3>1 DEF ProcStates
    <3>3. Engaged(process)
      BY <2>2, <3>2 DEF Engaged, persist_agent_record
    <3> HIDE DEF process
    <3>4. process.record # 0
      BY <2>1, <3>2
    <3> USE <2>1, <3>1, <3>2, <3>3, <3>4
    <3> WITNESS process \in ProcStates, procs[p].record + 1 \in 1..MaxRecords
    <3> QED
      OBVIOUS
  <2>3. CASE ResumeRecord(p)
    <3> DEFINE process == [procs[p] EXCEPT !.next = "lease"]
    <3>1. /\ procs' = [procs EXCEPT ![p] = process]
          /\ calls' = [calls EXCEPT ![p] = Call("record", "record", procs[p].record, None)]
      BY <2>3 DEF ResumeRecord
    <3>2. /\ process \in ProcStates /\ process.record = procs[p].record /\ process.next = "lease"
          /\ process.memory = procs[p].memory /\ process.index = procs[p].index
      BY DEF ProcStates
    <3>3. Engaged(process)
      BY <3>2 DEF Engaged
    <3> HIDE DEF process
    <3>4. process.record # 0
      BY <2>1, <3>2
    <3> USE <2>1, <3>1, <3>2, <3>3, <3>4
    <3> WITNESS process \in ProcStates, procs[p].record \in 1..MaxRecords
    <3> QED
      OBVIOUS
  <2> QED
    BY <2>2, <2>3
<1> DEFINE call == Call("record", "record", record, None)
<1>3. call \in CallStates /\ call.kind = "record" /\ call.step = "record" /\ call.record = record /\ ~call.done
  BY CallType DEF CallSteps
<1>4. calls' = [calls EXCEPT ![p] = call]
  BY <1>2
<1> HIDE DEF call
<1>5. ProcOk(process, call, files, fresh)
  <2>1. KnowsLog(process, files, fresh)
    BY <1>2 DEF KnowsLog
  <2>2. files.record # 0
    BY <1>1 DEF HasAgent
  <2>3. HasAgent(process, call, files)
    BY <1>2, <1>3, <2>2 DEF HasAgent
  <2>4. record # 0
    BY <1>2
  <2>5. CallOk(process, call, files)
    BY <1>3, <2>4 DEF CallOk
  <2> QED
    BY <2>1, <2>3, <2>5 DEF ProcOk
<1>6. \A q \in Runtimes \ {p} : Quiet(q)
  BY <1>1, OthersQuiet DEF Quiet, Engaged
<1>7. /\ ProcOk(process, call, files', fresh') /\ FilesOk(files', fresh') /\ files' \in FileStates
      /\ rules' \in BOOLEAN /\ lease' \in Runtimes \union {None} /\ troubles' \in 0..MaxTroubles
      /\ fresh' \in 1..(MaxEntries + 1) /\ fresh <= fresh'
  BY <1>1, <1>5
<1> QED
  BY <1>2, <1>3, <1>4, <1>6, <1>7, OneSteps, Zenon

\* Agent::from_loaded takes what it loads, or what it makes of it.
LEMMA ResumeKeeps == ASSUME ~Contended, StoreInv, NEW p \in Runtimes, Resume(p) PROVE StoreInv'
<1> USE Facts, StoreAssumption
<1>1. /\ Quiet(p) /\ \A q \in Runtimes \ {p} : Quiet(q)
      /\ files.record # 0 /\ files.state # None /\ UNCHANGED <<files, rules, lease, troubles>>
  BY Zenon DEF Resume, Alone, Loads
<1>2. /\ files.state \in MemoryState /\ files.record \in 1..MaxRecords
      /\ entries_of(files.state) \subseteq files.lines /\ entries_of(files.state) \in SUBSET Ids
      /\ \A id \in entries_of(files.state) : id < fresh
  BY <1>1 DEF FileStates, FilesOk, entries_of, MemoryState
<1>3. ASSUME NEW next \in {"record", "lease"}, NEW m \in MemoryState, NEW call \in CallStates,
             procs' = [procs EXCEPT ![p] = [procs[p] EXCEPT !.next = next, !.memory = m, !.record = files.record]],
             calls' = [calls EXCEPT ![p] = call],
             fresh' \in {fresh, fresh + 1}, fresh' \in 1..(MaxEntries + 1), fresh <= fresh',
             entries_of(m) \subseteq entries_of(files.state) \union (IF fresh' = fresh THEN {} ELSE {fresh}),
             \/ call.kind = "idle"
             \/ call.kind = "memory" /\ call.memory = m /\ call.step = "append" /\ ~call.done
      PROVE  StoreInv'
  <2> DEFINE process == [procs[p] EXCEPT !.next = next, !.memory = m, !.record = files.record]
  <2>1. /\ process \in ProcStates /\ process.next = next /\ process.memory = m
        /\ process.record = files.record /\ process.index = procs[p].index
    <3>1. files.record \in 0..MaxRecords
      BY <1>2
    <3>2. next \in {"none", "record", "lease"}
      BY <1>3
    <3>3. process = Taken(procs[p], next, m, files.record)
      BY DEF Taken
    <3>4. procs[p] \in ProcStates /\ m \in MemoryState
      BY <1>3
    <3> HIDE DEF process
    <3> HIDE Facts, StoreAssumption
    <3> QED
      BY <3>1, <3>2, <3>3, <3>4, Taking
  <2>2. procs' = [procs EXCEPT ![p] = process]
    BY <1>3
  <2> HIDE DEF process
  <2>3. KnowsLog(process, files, fresh')
    <3>1. \A id \in process.index.ids \union entries_of(files.state) : id < fresh
      BY <1>2, <2>1 DEF KnowsLog
    <3> QED
      BY <1>2, <1>3, <2>1, <3>1, Remembers, Zenon
  <2>4. HasAgent(process, call, files) /\ CallOk(process, call, files)
    BY <1>1, <1>3, <2>1 DEF HasAgent, CallOk, Engaged
  <2>5. FilesOk(files', fresh')
    BY <1>1, <1>3, Later
  <2>6. ProcOk(process, call, files', fresh') /\ files' \in FileStates
    BY <1>1, <2>3, <2>4 DEF ProcOk
  <2>7. rules' \in BOOLEAN /\ lease' \in Runtimes \union {None} /\ troubles' \in 0..MaxTroubles
    BY <1>1
  <2> QED
    BY <1>1, <1>3, <2>1, <2>2, <2>5, <2>6, <2>7, OneSteps, Zenon
<1>4. CASE ~NeedsRecovery(files.state)
  <2>1. /\ procs' = [procs EXCEPT ![p] = [procs[p] EXCEPT !.next = "lease", !.memory = files.state, !.record = files.record]]
        /\ calls' = calls /\ fresh' = fresh
    BY <1>4, Zenon DEF Resume
  <2>2. calls' = [calls EXCEPT ![p] = calls[p]] /\ calls[p].kind = "idle"
    BY <1>1, <2>1 DEF Quiet
  <2>3. fresh' \in {fresh, fresh + 1} /\ fresh' \in 1..(MaxEntries + 1) /\ fresh <= fresh'
    BY <2>1
  <2>4. entries_of(files.state) \subseteq entries_of(files.state) \union (IF fresh' = fresh THEN {} ELSE {fresh})
    OBVIOUS
  <2> QED
    BY <1>2, <1>3, <2>1, <2>2, <2>3, <2>4, Zenon
<1>5. CASE NeedsRecovery(files.state)
  <2>1. PICK r \in Recovered(files.state) :
            /\ procs' = [procs EXCEPT ![p] = [procs[p] EXCEPT !.next = "record", !.memory = r, !.record = files.record]]
            /\ calls' = [calls EXCEPT ![p] = Call("memory", "append", 0, r)]
            /\ fresh' = IF fresh \in r.entries THEN fresh + 1 ELSE fresh
    BY <1>5, Zenon DEF Resume
  <2>2. /\ r \in MemoryState /\ fresh' \in {fresh, fresh + 1} /\ fresh' \in 1..(MaxEntries + 1) /\ fresh <= fresh'
        /\ entries_of(r) \subseteq entries_of(files.state) \union (IF fresh' = fresh THEN {} ELSE {fresh})
    BY <1>2, <2>1, FollowingMemory
  <2> DEFINE call == Call("memory", "append", 0, r)
  <2>3. /\ call \in CallStates /\ call.kind = "memory" /\ call.step = "append" /\ call.memory = r /\ ~call.done
    BY <2>2, CallType DEF CallSteps
  <2>4. calls' = [calls EXCEPT ![p] = call]
    BY <2>1
  <2> HIDE DEF call
  <2> QED
    BY <1>3, <2>1, <2>2, <2>3, <2>4, Zenon
<1> QED
  BY <1>4, <1>5

\* register_agent makes the agent live, or lets go of it.
LEMMA AcquireKeeps == ASSUME StoreInv, NEW p \in Runtimes, acquire_lease(p) PROVE StoreInv'
<1> USE Facts, StoreAssumption
<1>1. /\ procs[p].next = "lease" /\ calls[p].kind = "idle" /\ calls' = [calls EXCEPT ![p] = calls[p]]
      /\ UNCHANGED <<files, rules, fresh, troubles>> /\ lease' \in Runtimes \union {None}
  BY DEF acquire_lease
<1>2. CASE lease = None
  <2> DEFINE process == [procs[p] EXCEPT !.next = "none", !.live = TRUE]
  <2>1. procs' = [procs EXCEPT ![p] = process]
    BY <1>2 DEF acquire_lease
  <2>2. /\ process \in ProcStates /\ process.live /\ process.record = procs[p].record
        /\ process.memory = procs[p].memory /\ process.index = procs[p].index
    BY Zenon DEF ProcStates
  <2> HIDE DEF process
  <2>3. ProcOk(process, calls[p], files, fresh)
    <3>1. KnowsLog(process, files, fresh)
      BY <2>2 DEF KnowsLog
    <3>2. HasAgent(process, calls[p], files) /\ CallOk(process, calls[p], files)
      BY <1>1, <2>2 DEF HasAgent, CallOk, Engaged
    <3> QED
      BY <3>1, <3>2 DEF ProcOk
  <2>4. \A q \in Runtimes \ {p} : Quiet(q)
    BY <1>1, OthersQuiet DEF Quiet
  <2>5. /\ ProcOk(process, calls[p], files', fresh') /\ FilesOk(files', fresh') /\ files' \in FileStates
        /\ rules' \in BOOLEAN /\ troubles' \in 0..MaxTroubles
        /\ fresh' \in 1..(MaxEntries + 1) /\ fresh <= fresh'
    BY <1>1, <2>3
  <2> QED
    BY <1>1, <2>1, <2>2, <2>4, <2>5, OneSteps, Zenon
<1>3. CASE lease # None
  <2>1. procs' = [procs EXCEPT ![p] = Without(procs[p])]
    BY <1>3 DEF acquire_lease
  <2>2. /\ ~Engaged(Without(procs[p])) /\ Without(procs[p]).memory = NewMemory
        /\ Without(procs[p]).index = procs[p].index /\ Without(procs[p]) \in ProcStates
    BY Resting, Zenon DEF Without, NewProcess, Engaged, ProcStates
  <2>3. (\A id \in procs[p].index.ids : id < fresh) /\ troubles' \in 0..MaxTroubles
    BY <1>1 DEF KnowsLog
  <2> QED
    BY <1>1, <2>1, <2>2, <2>3, LetsGo, Zenon
<1> QED
  BY <1>2, <1>3

\* A host lets go of the agent or of the runtime.
LEMMA DropKeeps == ASSUME StoreInv, NEW p \in Runtimes, DropAgent(p) \/ DropRuntime(p) PROVE StoreInv'
<1> USE Facts
<1>1. /\ calls[p].kind = "idle" /\ calls' = [calls EXCEPT ![p] = calls[p]]
      /\ UNCHANGED <<files, rules, fresh, troubles>> /\ lease' \in Runtimes \union {None}
  BY DEF DropAgent, DropRuntime
<1>2. PICK process \in ProcStates : /\ procs' = [procs EXCEPT ![p] = process]
                                    /\ ~Engaged(process) /\ process.memory = NewMemory
                                    /\ \A id \in process.index.ids : id < fresh
  <2>1. CASE DropAgent(p)
    <3>1. procs' = [procs EXCEPT ![p] = Without(procs[p])]
      BY <2>1 DEF DropAgent
    <3>2. /\ ~Engaged(Without(procs[p])) /\ Without(procs[p]).memory = NewMemory
          /\ Without(procs[p]).index = procs[p].index /\ Without(procs[p]) \in ProcStates
      BY Resting, Zenon DEF Without, NewProcess, Engaged, ProcStates
    <3>3. \A id \in procs[p].index.ids : id < fresh
      BY DEF KnowsLog
    <3> QED
      BY <3>1, <3>2, <3>3, Zenon
  <2>2. CASE DropRuntime(p)
    <3>1. procs' = [procs EXCEPT ![p] = NewProcess]
      BY <2>2 DEF DropRuntime
    <3>2. /\ ~Engaged(NewProcess) /\ NewProcess.memory = NewMemory /\ NewProcess.index.ids = {}
          /\ NewProcess \in ProcStates
      BY Resting DEF NewProcess, NoIndex, Engaged
    <3> QED
      BY <3>1, <3>2, Zenon
  <2> QED
    BY <2>1, <2>2
<1>3. troubles' \in 0..MaxTroubles
  BY <1>1
<1> QED
  BY <1>1, <1>2, <1>3, LetsGo, Zenon

\* A delete begins when nobody has the agent.
LEMMA DeleteRequestKeeps == ASSUME ~Contended, StoreInv, NEW p \in Runtimes, delete_agent(p) PROVE StoreInv'
<1> USE Facts, StoreAssumption
<1> DEFINE process == [procs[p] EXCEPT !.index = NoIndex]
           call == Call("delete", "unlink", 0, None)
<1>1. /\ procs' = [procs EXCEPT ![p] = process] /\ calls' = [calls EXCEPT ![p] = call]
      /\ \A q \in Runtimes : Quiet(q) /\ UNCHANGED <<files, rules, lease, fresh, troubles>>
  BY DEF delete_agent, Alone
<1>2. /\ process \in ProcStates /\ process.live = procs[p].live /\ process.next = procs[p].next
      /\ process.memory = procs[p].memory /\ process.index = NoIndex
  BY Zenon DEF ProcStates, NoIndex, Indexes
<1>3. call \in CallStates /\ call.kind = "delete" /\ call.step = "unlink" /\ ~call.done
  BY CallType DEF CallSteps
<1> HIDE DEF process, call
<1>4. ~Engaged(process) /\ process.memory = NewMemory
  BY <1>1, <1>2 DEF HasAgent, Engaged, Quiet
<1>5. ProcOk(process, call, files, fresh)
  <2>1. entries_of(process.memory) = {} /\ process.index.ids = {}
    BY <1>2, <1>4 DEF entries_of, NewMemory, NoIndex
  <2> QED
    BY <1>3, <1>4, <2>1 DEF ProcOk, KnowsLog, HasAgent, CallOk
<1>6. /\ ProcOk(process, call, files', fresh') /\ FilesOk(files', fresh') /\ files' \in FileStates
      /\ rules' \in BOOLEAN /\ lease' \in Runtimes \union {None} /\ troubles' \in 0..MaxTroubles
      /\ fresh' \in 1..(MaxEntries + 1) /\ fresh <= fresh' /\ \A q \in Runtimes \ {p} : Quiet(q)
  BY <1>1, <1>5
<1> QED
  BY <1>1, <1>2, <1>3, <1>6, OneSteps, Zenon

\* All that may be asked.
LEMMA RequestsKeep == ASSUME ~Contended, StoreInv, NEW p \in Runtimes, Requests(p) PROVE StoreInv'
<1>1. CASE remember_rule(p)
  BY <1>1 DEF remember_rule, StoreInv, TypeOK, OneAtATime, Quiet
<1> QED
  BY <1>1, SpawnKeeps, PersistKeeps, RecordRequestKeeps, ResumeKeeps, AcquireKeeps, DropKeeps, DeleteRequestKeeps
     DEF Requests

-----------------------------------------------------------------------------
(* The steps of an operation.                                              *)

\* A step that leaves the process's memory alone.
LEMMA StepsOn ==
    ASSUME StoreInv, NEW p \in Runtimes, calls[p].kind # "idle", NEW f \in FileStates, NEW call \in CallStates,
           files' = f, calls' = [calls EXCEPT ![p] = call], UNCHANGED <<lease, procs, fresh, troubles>>,
           rules' \in BOOLEAN, FilesOk(f, fresh), ProcOk(procs[p], call, f, fresh)
    PROVE  StoreInv'
<1> USE Facts
<1>1. procs' = [procs EXCEPT ![p] = procs[p]]
  OBVIOUS
<1>2. \A q \in Runtimes \ {p} : Quiet(q)
  BY OthersQuiet DEF Quiet
<1>3. /\ ProcOk(procs[p], call, files', fresh') /\ FilesOk(files', fresh') /\ files' \in FileStates
      /\ lease' \in Runtimes \union {None} /\ troubles' \in 0..MaxTroubles
      /\ fresh' \in 1..(MaxEntries + 1) /\ fresh <= fresh'
  OBVIOUS
<1> QED
  BY <1>1, <1>2, <1>3, OneSteps, Zenon

\* A replacement that fails, with the old file or the new one.
LEMMA ReplaceFails ==
    ASSUME StoreInv, NEW p \in Runtimes, calls[p].kind # "idle", NEW f \in FileStates, FilesOk(f, fresh),
           f.lines = files.lines, f.tail = files.tail, procs[p].live => f.record # 0,
           Broken(p, files, procs[p].index) \/ Broken(p, f, procs[p].index)
    PROVE  StoreInv'
<1> USE Facts
<1>1. procs[p].index \in Indexes /\ [procs[p] EXCEPT !.index = procs[p].index] = procs[p]
  BY DEF ProcStates
<1>2. \A id \in procs[p].index.ids : id < fresh
  BY DEF KnowsLog
<1>3. KnowsLog(procs[p], f, fresh)
  BY DEF KnowsLog
<1>4. procs[p].live => files.record # 0
  BY DEF HasAgent, CallOk, Engaged
<1> QED
  BY <1>1, <1>2, <1>3, <1>4, BrokenKeeps

\* What an append may do to the files.
Longer(f, w, tail) ==
    /\ f.lines = files.lines \union w /\ f.tail = tail
    /\ f.record = files.record /\ f.state = files.state /\ f.leaf = files.leaf /\ f.junk = files.junk

\* It keeps the directory sound.
LEMMA Appended ==
    ASSUME StoreInv, NEW w \in SUBSET Ids, \A id \in w : id < fresh,
           NEW tail \in Tails, tail.id < fresh, tail.whole => tail.id # 0, NEW f, Longer(f, w, tail)
    PROVE  FilesOk(f, fresh)
<1>1. files \in FileStates /\ FilesOk(files, fresh)
  BY Types DEF StoreInv
<1> QED
  BY <1>1 DEF FilesOk, Longer

\* append_missing: what it finds missing, it writes, and what it counts on is
\* in the log.
LEMMA AppendKeeps == ASSUME StoreInv, NEW p \in Runtimes, append_missing(p) PROVE StoreInv'
<1> USE Facts, StoreAssumption
<1> DEFINE index == procs[p].index
           named == entries_of(procs[p].memory)
           known == IF index.loaded THEN index.ids ELSE read_log(files)
           missing == named \ known
           learnt == [loaded |-> TRUE, ids |-> known \union missing]
           kept == [loaded |-> TRUE, ids |-> known]
<1>1. /\ calls[p].kind \in {"create", "memory"} /\ calls[p].step = "append" /\ ~calls[p].done
      /\ calls[p].memory = procs[p].memory
  BY Zenon DEF append_missing, At, CallOk, CallStates
<1>2. /\ index \in Indexes /\ procs[p].memory \in MemoryState /\ files.lines \in SUBSET Ids
      /\ files.tail \in Tails /\ ~files.junk
  BY DEF ProcStates, FileStates, FilesOk
<1>3. named \in SUBSET Ids /\ \A id \in named : id < fresh
  BY <1>2 DEF entries_of, MemoryState, KnowsLog
<1>4. known \in SUBSET Ids /\ known \intersect named \subseteq files.lines /\ \A id \in known : id < fresh
  <2>1. CASE index.loaded
    BY <1>2, <2>1 DEF Indexes, KnowsLog
  <2>2. CASE ~index.loaded
    <3>1. known = files.lines \union (IF files.tail.whole THEN {files.tail.id} ELSE {})
      BY <2>2 DEF read_log
    <3>2. \A id \in known : id < fresh
      BY <3>1 DEF FilesOk
    <3>3. known \intersect named \subseteq files.lines
      BY <2>2, <3>1 DEF KnowsLog
    <3>4. known \in SUBSET Ids
      <4>1. files.tail.whole => files.tail.id \in Ids
        BY <1>2 DEF Tails, FilesOk
      <4> QED
        BY <1>2, <3>1, <4>1
    <3> QED
      BY <3>2, <3>3, <3>4
  <2> QED
    BY <2>1, <2>2
<1>5. learnt \in Indexes /\ kept \in Indexes /\ missing \in SUBSET Ids /\ \A id \in missing : id < fresh
  BY <1>3, <1>4 DEF Indexes
<1>6. ASSUME NEW f \in FileStates, NEW tail \in Tails, Longer(f, missing, tail), FilesOk(f, fresh),
             files' = f, procs' = [procs EXCEPT ![p].index = learnt], Goto(p, "state"),
             UNCHANGED <<rules, lease, fresh, troubles>>
      PROVE  StoreInv'
  <2> DEFINE process == [procs[p] EXCEPT !.index = learnt]
             call == [calls[p] EXCEPT !.step = "state"]
  <2>1. procs' = [procs EXCEPT ![p] = process] /\ calls' = [calls EXCEPT ![p] = call]
    BY <1>6 DEF Goto
  <2>2. /\ process \in ProcStates /\ process.live = procs[p].live /\ process.next = procs[p].next
        /\ process.record = procs[p].record /\ process.memory = procs[p].memory /\ process.index = learnt
    BY <1>5, Zenon DEF ProcStates
  <2>3. /\ call \in CallStates /\ call.kind = calls[p].kind /\ call.step = "state" /\ call.record = calls[p].record
        /\ call.memory = calls[p].memory /\ call.done = calls[p].done
    BY DEF CallStates, CallSteps
  <2>4. named \subseteq f.lines
    BY <1>4, <1>6 DEF Longer
  <2>5. learnt.loaded /\ learnt.ids \intersect named \subseteq f.lines /\ \A id \in learnt.ids \union named : id < fresh
    BY <1>3, <1>4, <2>4
  <2> HIDE DEF process, call, learnt, missing, known
  <2>6. KnowsLog(process, f, fresh)
    BY <2>2, <2>5 DEF KnowsLog
  <2>7. f.record = files.record
    BY <1>6 DEF Longer
  <2>8. HasAgent(process, call, f)
    BY <2>2, <2>3, <2>7 DEF HasAgent, Engaged
  <2>9. CallOk(process, call, f)
    BY <1>1, <2>2, <2>3, <2>4, <2>7 DEF CallOk
  <2>10. \A q \in Runtimes \ {p} : Quiet(q)
    BY <1>1, OthersQuiet DEF Quiet
  <2>11. /\ ProcOk(process, call, files', fresh') /\ FilesOk(files', fresh') /\ files' \in FileStates
         /\ rules' \in BOOLEAN /\ lease' \in Runtimes \union {None} /\ troubles' \in 0..MaxTroubles
         /\ fresh' \in 1..(MaxEntries + 1) /\ fresh <= fresh'
    BY <1>6, <2>6, <2>8, <2>9 DEF ProcOk
  <2> QED
    BY <2>1, <2>2, <2>3, <2>10, <2>11, OneSteps, Zenon
<1>7. ASSUME NEW f \in FileStates, NEW w \in SUBSET missing, NEW tail \in Tails, Longer(f, w, tail),
             FilesOk(f, fresh), Broken(p, f, kept)
      PROVE  StoreInv'
  <2> DEFINE process == [procs[p] EXCEPT !.index = kept]
  <2>1. process.memory = procs[p].memory /\ process.index = kept
    BY SMTT(30) DEF ProcStates
  <2>2. kept.loaded /\ kept.ids \intersect named \subseteq f.lines /\ \A id \in kept.ids \union named : id < fresh
    BY <1>3, <1>4, <1>7 DEF Longer
  <2> HIDE DEF process, kept, missing, known
  <2>3. KnowsLog(process, f, fresh)
    BY <2>1, <2>2, SMTT(30) DEF KnowsLog
  <2>4. procs[p].live => f.record # 0
    BY <1>1, <1>7 DEF Longer, HasAgent, CallOk, Engaged
  <2>5. calls[p].kind # "idle" /\ \A id \in kept.ids : id < fresh
    BY <1>1, <2>2, SMTT(30)
  <2> QED
    BY <1>5, <1>7, <2>3, <2>4, <2>5, BrokenKeeps DEF process
<1>8. /\ calls[p].memory = procs[p].memory /\ entries_of(calls[p].memory) \ known = missing
      /\ extended(known, missing, TRUE) = known \union missing /\ extended(known, missing, FALSE) = known
  BY <1>1 DEF extended
<1>9. \/ /\ missing = {}
         /\ procs' = [procs EXCEPT ![p].index = learnt] /\ Goto(p, "state")
         /\ UNCHANGED <<files, rules, lease, fresh, troubles>>
      \/ /\ files' = [drop_truncated_tail(files) EXCEPT !.lines = @ \union missing]
         /\ procs' = [procs EXCEPT ![p].index = learnt] /\ Goto(p, "state")
         /\ UNCHANGED <<rules, lease, fresh, troubles>>
      \/ \E written \in SUBSET missing :
             \E tail \in {NoTail} \union [id : missing \ written, whole : BOOLEAN] :
                 Broken(p, [drop_truncated_tail(files) EXCEPT !.lines = @ \union written, !.tail = tail], kept)
      \/ Broken(p, files, kept)
  BY <1>2, <1>8, Zenon DEF append_missing
<1> HIDE DEF learnt, kept, missing, known
<1>10. ASSUME NEW tail \in {NoTail} \union [id : missing, whole : BOOLEAN]
       PROVE  tail \in Tails /\ tail.id < fresh /\ (tail.whole => tail.id # 0)
  <2>1. CASE tail = NoTail
    <3>1. 0 < fresh
      OBVIOUS
    <3> QED
      BY <2>1, <3>1 DEF NoTail, Tails
  <2>2. CASE tail \in [id : missing, whole : BOOLEAN]
    <3>1. missing \subseteq Ids /\ \A id \in missing : id < fresh
      BY <1>5
    <3>2. tail.id \in missing /\ tail \in Tails
      BY <2>2, <3>1 DEF Tails
    <3>3. tail.id # 0
      BY <3>1, <3>2 DEF Ids
    <3> QED
      BY <3>1, <3>2, <3>3
  <2> QED
    BY <2>1, <2>2
<1>11. CASE /\ missing = {}
            /\ procs' = [procs EXCEPT ![p].index = learnt] /\ Goto(p, "state")
            /\ UNCHANGED <<files, rules, lease, fresh, troubles>>
  <2>1. Longer(files, missing, files.tail)
    BY <1>11 DEF Longer
  <2> QED
    BY <1>2, <1>6, <1>11, <2>1
<1>12. CASE /\ files' = [drop_truncated_tail(files) EXCEPT !.lines = @ \union missing]
            /\ procs' = [procs EXCEPT ![p].index = learnt] /\ Goto(p, "state")
            /\ UNCHANGED <<rules, lease, fresh, troubles>>
  <2> DEFINE f == [drop_truncated_tail(files) EXCEPT !.lines = @ \union missing]
  <2>1. f \in FileStates /\ Longer(f, missing, NoTail)
    BY <1>5, <1>10, Zenon DEF FileStates, Longer, drop_truncated_tail
  <2>2. files' = f
    BY <1>12
  <2> HIDE DEF f
  <2>3. NoTail \in Tails /\ FilesOk(f, fresh)
    BY <1>5, <1>10, <2>1, Appended
  <2> QED
    BY <1>6, <1>12, <2>1, <2>2, <2>3
<1>13. ASSUME NEW written \in SUBSET missing, NEW tail \in {NoTail} \union [id : missing \ written, whole : BOOLEAN],
              Broken(p, [drop_truncated_tail(files) EXCEPT !.lines = @ \union written, !.tail = tail], kept)
       PROVE  StoreInv'
  <2> DEFINE f == [drop_truncated_tail(files) EXCEPT !.lines = @ \union written, !.tail = tail]
  <2>1. tail \in Tails /\ tail.id < fresh /\ (tail.whole => tail.id # 0)
    BY <1>10
  <2>2. f \in FileStates /\ Longer(f, written, tail)
    BY <1>5, <2>1, Zenon DEF FileStates, Longer, drop_truncated_tail
  <2>3. Broken(p, f, kept)
    BY <1>13
  <2> HIDE DEF f
  <2>4. written \in SUBSET Ids /\ \A id \in written : id < fresh
    BY <1>5
  <2>5. FilesOk(f, fresh)
    BY <2>1, <2>2, <2>4, Appended
  <2> QED
    BY <1>7, <2>1, <2>2, <2>3, <2>5
<1>14. CASE Broken(p, files, kept)
  <2>1. Longer(files, {}, files.tail)
    BY DEF Longer
  <2> QED
    BY <1>2, <1>7, <1>14, <2>1
<1> QED
  BY <1>9, <1>11, <1>12, <1>13, <1>14, Zenon

\* What a process at one of the first three steps has in hand.
LEMMA Saving ==
    ASSUME StoreInv, NEW p \in Runtimes, At(p, "append") \/ At(p, "state") \/ At(p, "leaf")
    PROVE  /\ calls[p].kind \in {"create", "memory"} /\ calls[p].memory = procs[p].memory
           /\ calls[p].memory \in MemoryState /\ calls[p].memory # None /\ Engaged(procs[p])
           /\ calls[p].kind = "create" => ~procs[p].live /\ calls[p].memory = NewMemory /\ files.record = 0
           /\ calls[p].kind = "memory" => files.record # 0
           /\ ~At(p, "append") => entries_of(calls[p].memory) \subseteq files.lines
<1> USE Facts
<1>1. calls[p].kind \in {"create", "memory"} /\ calls[p].memory = procs[p].memory
  BY SMTT(30) DEF At, CallOk, CallStates
<1>2. calls[p].memory \in MemoryState
  BY <1>1 DEF ProcStates
<1>3. calls[p].memory # None
  BY <1>2, NoneAssumption
<1>4. Engaged(procs[p])
  BY <1>1 DEF HasAgent
<1>5. calls[p].kind = "create" => ~procs[p].live /\ calls[p].memory = NewMemory /\ files.record = 0
  BY DEF CallOk
<1>6. calls[p].kind = "memory" => files.record # 0
  BY <1>4 DEF HasAgent
<1>7. ~At(p, "append") => entries_of(calls[p].memory) \subseteq files.lines
  <2>1. CASE calls[p].kind = "create"
    BY <1>5, <2>1 DEF entries_of, NewMemory
  <2>2. CASE calls[p].kind = "memory"
    BY <1>1, <2>2 DEF CallOk, At
  <2> QED
    BY <1>1, <2>1, <2>2
<1> QED
  BY <1>1, <1>2, <1>3, <1>4, <1>5, <1>6, <1>7, SMTT(30)

\* A process whose operation ended has the agent, listed, if it had it.
LEMMA EndedOk ==
    ASSUME StoreInv, NEW p \in Runtimes, NEW f \in FileStates, f.lines = files.lines, f.tail = files.tail,
           Engaged(procs[p]) => f.record # 0, NEW r \in {"ok", "error"}
    PROVE  ProcOk(procs[p], Idle(r), f, fresh) /\ Idle(r) \in CallStates
<1> USE Facts
<1>1. Idle(r) \in CallStates /\ Idle(r).kind = "idle"
  BY Resting, Zenon DEF Idle
<1>2. KnowsLog(procs[p], f, fresh)
  BY DEF KnowsLog
<1>3. HasAgent(procs[p], Idle(r), f)
  BY <1>1, SMTT(30) DEF HasAgent
<1>4. CallOk(procs[p], Idle(r), f)
  BY <1>1 DEF CallOk
<1> QED
  BY <1>1, <1>2, <1>3, <1>4 DEF ProcOk

\* state.json.
LEMMA SaveStateKeeps == ASSUME StoreInv, NEW p \in Runtimes, save_state(p) PROVE StoreInv'
<1> USE Facts
<1> DEFINE f == [files EXCEPT !.state = calls[p].memory]
           next == IF calls[p].kind = "memory" THEN Passed(p, "leaf") ELSE Goto(p, "leaf")
<1>1. At(p, "state") /\ atomic_replace(p, f, next)
  BY DEF save_state
<1>2. /\ calls[p].kind \in {"create", "memory"} /\ calls[p].memory = procs[p].memory
      /\ calls[p].memory \in MemoryState /\ calls[p].memory # None /\ Engaged(procs[p])
      /\ calls[p].kind = "create" => ~procs[p].live /\ calls[p].memory = NewMemory /\ files.record = 0
      /\ calls[p].kind = "memory" => files.record # 0
      /\ entries_of(calls[p].memory) \subseteq files.lines
  <2>1. ~At(p, "append")
    BY <1>1 DEF At
  <2> QED
    BY <1>1, <2>1, Saving
<1>3. /\ f \in FileStates /\ f.lines = files.lines /\ f.tail = files.tail /\ f.junk = files.junk
      /\ f.record = files.record /\ f.leaf = files.leaf /\ f.state = calls[p].memory
  BY <1>2, SMTT(30) DEF FileStates
<1> HIDE DEF f
<1>4. FilesOk(f, fresh)
  BY <1>2, <1>3 DEF FilesOk
<1>5. KnowsLog(procs[p], f, fresh)
  BY <1>3 DEF KnowsLog
<1>6. CASE files' = f /\ next /\ UNCHANGED <<rules, lease, procs, fresh, troubles>>
  <2> DEFINE call == [calls[p] EXCEPT !.step = "leaf", !.done = (calls[p].kind = "memory")]
  <2>1. call \in CallStates
    BY Zenon DEF CallStates, CallSteps
  <2>2. /\ call.kind = calls[p].kind /\ call.step = "leaf" /\ call.done = (calls[p].kind = "memory")
        /\ call.memory = calls[p].memory /\ call.record = calls[p].record
    BY DEF CallStates
  <2>3. calls' = [calls EXCEPT ![p] = call]
    <3>1. CASE calls[p].kind = "memory"
      <4>1. calls' = [calls EXCEPT ![p] = [calls[p] EXCEPT !.step = "leaf", !.done = TRUE]]
        BY <1>6, <3>1, Zenon DEF Passed
      <4> QED
        BY <3>1, <4>1, Zenon
    <3>2. CASE calls[p].kind # "memory"
      <4>1. ~calls[p].done
        BY <1>2, <3>2 DEF CallOk
      <4>2. calls' = [calls EXCEPT ![p] = [calls[p] EXCEPT !.step = "leaf"]]
        BY <1>6, <3>2 DEF Goto
      <4>3. [calls[p] EXCEPT !.step = "leaf"] = call
        BY <3>2, <4>1, Zenon DEF CallStates
      <4> QED
        BY <4>2, <4>3, Zenon
    <3> QED
      BY <3>1, <3>2
  <2> HIDE DEF call
  <2>4. HasAgent(procs[p], call, f)
    BY <1>2, <1>3, <2>2, Zenon DEF HasAgent
  <2>5. CallOk(procs[p], call, f)
    BY <1>2, <1>3, <2>2, Zenon DEF CallOk
  <2>6. ProcOk(procs[p], call, f, fresh)
    BY <1>5, <2>4, <2>5, SMTT(30) DEF ProcOk
  <2> QED
    BY <1>2, <1>3, <1>4, <1>6, <2>1, <2>3, <2>6, StepsOn, Zenon
<1>7. CASE Broken(p, files, procs[p].index) \/ Broken(p, f, procs[p].index)
  BY <1>2, <1>3, <1>4, <1>7, ReplaceFails
<1> QED
  BY <1>1, <1>6, <1>7 DEF atomic_replace

\* leaf: the last entry of a memory the log holds.
LEMMA SaveLeafKeeps == ASSUME StoreInv, NEW p \in Runtimes, save_leaf(p) PROVE StoreInv'
<1> USE Facts
<1> DEFINE to == leaf(calls[p].memory)
           f == [files EXCEPT !.leaf = to]
           next == IF calls[p].kind = "create" THEN Goto(p, "record") ELSE Ended(p, "ok")
<1>1. At(p, "leaf") /\ atomic_replace(p, f, next)
  BY DEF save_leaf
<1>2. /\ calls[p].kind \in {"create", "memory"} /\ calls[p].memory = procs[p].memory
      /\ calls[p].memory \in MemoryState /\ Engaged(procs[p])
      /\ calls[p].kind = "create" => ~procs[p].live /\ calls[p].memory = NewMemory /\ files.record = 0
      /\ calls[p].kind = "memory" => files.record # 0
      /\ entries_of(calls[p].memory) \subseteq files.lines
  <2>1. ~At(p, "append")
    BY <1>1 DEF At
  <2> QED
    BY <1>1, <2>1, Saving
<1>3. to \in Ids \union {None} /\ (to # None => to \in files.lines) /\ (calls[p].memory = NewMemory => to = None)
  <2>1. CASE calls[p].memory.entries = {}
    BY <2>1 DEF leaf
  <2>2. CASE calls[p].memory.entries # {}
    <3>1. calls[p].memory.entries \in SUBSET Ids /\ calls[p].memory # NewMemory
      <4>1. calls[p].memory.entries \in SUBSET Ids
        BY <1>2 DEF MemoryState
      <4>2. NewMemory.entries = {}
        BY DEF NewMemory
      <4> QED
        BY <2>2, <4>1, <4>2
    <3>2. Max(calls[p].memory.entries) \in calls[p].memory.entries
      BY <2>2, <3>1, MaxIsThere
    <3>3. to = Max(calls[p].memory.entries)
      BY <2>2 DEF leaf
    <3> QED
      BY <1>2, <3>1, <3>2, <3>3, SMTT(30) DEF entries_of
  <2> QED
    BY <2>1, <2>2
<1> HIDE DEF to
<1>4. /\ f \in FileStates /\ f.lines = files.lines /\ f.tail = files.tail /\ f.junk = files.junk
      /\ f.record = files.record /\ f.leaf = to /\ f.state = files.state
  BY <1>3 DEF FileStates
<1> HIDE DEF f
<1>5. FilesOk(f, fresh)
  BY <1>3, <1>4 DEF FilesOk
<1>6. CASE files' = f /\ next /\ UNCHANGED <<rules, lease, procs, fresh, troubles>>
  <2>1. CASE calls[p].kind = "create"
    <3> DEFINE call == [calls[p] EXCEPT !.step = "record"]
    <3>1. /\ call \in CallStates /\ call.kind = "create" /\ call.step = "record" /\ call.done = calls[p].done
          /\ call.memory = calls[p].memory /\ call.record = calls[p].record
      BY <2>1 DEF CallStates, CallSteps
    <3>2. calls' = [calls EXCEPT ![p] = call]
      BY <1>6, <2>1 DEF Goto
    <3> HIDE DEF call
    <3>3. KnowsLog(procs[p], f, fresh)
      BY <1>4 DEF KnowsLog
    <3>4. HasAgent(procs[p], call, f)
      BY <1>2, <2>1, <3>1 DEF HasAgent
    <3>5. CallOk(procs[p], call, f)
      BY <1>1, <1>2, <1>3, <1>4, <2>1, <3>1, Zenon DEF CallOk, At
    <3>6. ProcOk(procs[p], call, f, fresh)
      BY <3>3, <3>4, <3>5 DEF ProcOk
    <3> QED
      BY <1>2, <1>4, <1>5, <1>6, <3>1, <3>2, <3>6, StepsOn, Zenon
  <2>2. CASE calls[p].kind = "memory"
    <3>1. calls' = [calls EXCEPT ![p] = Idle("ok")]
      BY <1>6, <2>2, SMTT(30) DEF Ended
    <3>2. ProcOk(procs[p], Idle("ok"), f, fresh) /\ Idle("ok") \in CallStates
      BY <1>2, <1>4, <2>2, EndedOk
    <3> QED
      BY <1>2, <1>4, <1>5, <1>6, <3>1, <3>2, StepsOn, Zenon
  <2> QED
    BY <1>2, <2>1, <2>2
<1>7. CASE Broken(p, files, procs[p].index) \/ Broken(p, f, procs[p].index)
  BY <1>2, <1>4, <1>5, <1>7, ReplaceFails, Zenon
<1> QED
  BY <1>1, <1>6, <1>7 DEF atomic_replace

\* agent.json: what it lists has a snapshot.
LEMMA SaveRecordKeeps == ASSUME StoreInv, NEW p \in Runtimes, save_record(p) PROVE StoreInv'
<1> USE Facts
<1> DEFINE f == [files EXCEPT !.record = calls[p].record]
<1>1. At(p, "record") /\ atomic_replace(p, f, Ended(p, "ok"))
  BY DEF save_record
<1>2. /\ calls[p].kind \in {"create", "record"} /\ calls[p].record \in 0..MaxRecords
      /\ calls[p].kind = "create" => files.state = NewMemory /\ files.leaf = None
  BY <1>1 DEF At, CallOk, CallStates
<1>3. calls[p].record # 0 /\ (calls[p].kind = "record" => files.record # 0)
  BY <1>1, <1>2 DEF CallOk, HasAgent
<1>4. /\ f \in FileStates /\ f.lines = files.lines /\ f.tail = files.tail /\ f.junk = files.junk
      /\ f.record = calls[p].record /\ f.leaf = files.leaf /\ f.state = files.state
  BY <1>2 DEF FileStates
<1> HIDE DEF f
<1>5. FilesOk(f, fresh)
  <2>1. CASE calls[p].kind = "create"
    <3>1. f.state # None /\ entries_of(f.state) = {} /\ f.leaf = None
      BY <1>2, <1>4, <2>1, Resting, NoneAssumption DEF entries_of, NewMemory
    <3> QED
      BY <1>4, <3>1 DEF FilesOk
  <2>2. CASE calls[p].kind = "record"
    BY <1>3, <1>4, <2>2 DEF FilesOk
  <2> QED
    BY <1>2, <2>1, <2>2
<1>6. CASE files' = f /\ Ended(p, "ok") /\ UNCHANGED <<rules, lease, procs, fresh, troubles>>
  <2>1. calls' = [calls EXCEPT ![p] = Idle("ok")]
    BY <1>6 DEF Ended
  <2>2. ProcOk(procs[p], Idle("ok"), f, fresh) /\ Idle("ok") \in CallStates
    BY <1>3, <1>4, EndedOk
  <2> QED
    BY <1>2, <1>4, <1>5, <1>6, <2>1, <2>2, StepsOn, Zenon
<1>7. CASE Broken(p, files, procs[p].index) \/ Broken(p, f, procs[p].index)
  BY <1>2, <1>3, <1>4, <1>5, <1>7, ReplaceFails
<1> QED
  BY <1>1, <1>6, <1>7 DEF atomic_replace

\* What a process in a delete has.
LEMMA Deleting ==
    ASSUME StoreInv, NEW p \in Runtimes, At(p, "unlink") \/ At(p, "directory") \/ At(p, "rules")
    PROVE  /\ calls[p].kind = "delete" /\ ~Engaged(procs[p]) /\ ~procs[p].live /\ procs[p].memory = NewMemory
           /\ entries_of(procs[p].memory) = {}
           /\ \A id \in procs[p].index.ids : id < fresh
<1> USE Facts
<1>1. calls[p].kind = "delete"
  BY DEF At, CallOk, CallStates
<1>2. ~Engaged(procs[p])
  BY <1>1 DEF HasAgent
<1>3. procs[p].memory = NewMemory
  BY <1>2 DEF HasAgent
<1>4. entries_of(procs[p].memory) = {}
  BY <1>3 DEF entries_of, NewMemory
<1>5. \A id \in procs[p].index.ids : id < fresh
  BY DEF KnowsLog
<1>6. ~procs[p].live
  BY <1>2 DEF Engaged
<1> QED
  BY <1>1, <1>2, <1>3, <1>4, <1>5, <1>6

\* A delete that fails, whatever it leaves.
LEMMA DeleteFails ==
    ASSUME StoreInv, NEW p \in Runtimes, calls[p].kind = "delete", NEW f \in FileStates, FilesOk(f, fresh),
           ~procs[p].live, \A id \in procs[p].index.ids : id < fresh, Broken(p, f, procs[p].index)
    PROVE  StoreInv'
<1>1. procs[p].index \in Indexes
  BY Facts DEF ProcStates
<1> QED
  BY <1>1, BrokenKeeps, Zenon

\* A delete that goes on.
LEMMA DeletesOn ==
    ASSUME StoreInv, NEW p \in Runtimes, calls[p].kind = "delete", NEW f \in FileStates, FilesOk(f, fresh),
           ~Engaged(procs[p]), procs[p].memory = NewMemory, entries_of(procs[p].memory) = {},
           \A id \in procs[p].index.ids : id < fresh,
           NEW step \in {"directory", "rules"}, f.record = 0, step = "rules" => f = EmptyFiles,
           files' = f, UNCHANGED <<rules, lease, procs, fresh, troubles>>,
           calls' = [calls EXCEPT ![p] = [calls[p] EXCEPT !.step = step, !.done = TRUE]]
    PROVE  StoreInv'
<1> USE Facts
<1> DEFINE call == [calls[p] EXCEPT !.step = step, !.done = TRUE]
<1>1. call \in CallStates /\ call.kind = "delete" /\ call.step = step /\ call.done
  BY Zenon DEF CallStates, CallSteps
<1>2. calls' = [calls EXCEPT ![p] = call]
  OBVIOUS
<1> HIDE DEF call
<1>3. KnowsLog(procs[p], f, fresh)
  BY DEF KnowsLog
<1>4. HasAgent(procs[p], call, f) /\ CallOk(procs[p], call, f)
  BY <1>1 DEF HasAgent, CallOk
<1>5. ProcOk(procs[p], call, f, fresh)
  BY <1>3, <1>4 DEF ProcOk
<1> QED
  BY <1>1, <1>2, <1>5, StepsOn, Zenon

\* The three steps of a delete.
LEMMA DeleteKeeps ==
    ASSUME StoreInv, NEW p \in Runtimes, unlink_record(p) \/ remove_directory(p) \/ clear_session_rules(p)
    PROVE  StoreInv'
<1> USE Facts, StoreAssumption
<1>1. /\ calls[p].kind = "delete" /\ ~Engaged(procs[p]) /\ ~procs[p].live /\ procs[p].memory = NewMemory
      /\ entries_of(procs[p].memory) = {} /\ \A id \in procs[p].index.ids : id < fresh
  BY Deleting, Zenon DEF unlink_record, remove_directory, clear_session_rules
<1>2. EmptyFiles \in FileStates /\ FilesOk(EmptyFiles, fresh) /\ EmptyFiles.record = 0
  <2>1. 0 < fresh
    OBVIOUS
  <2> QED
    BY <2>1, Resting, Zenon DEF FilesOk, EmptyFiles, NoTail
<1>3. CASE unlink_record(p)
  <2> DEFINE f == [files EXCEPT !.record = 0]
  <2>1. /\ f \in FileStates /\ f.lines = files.lines /\ f.tail = files.tail /\ f.junk = files.junk /\ f.record = 0
    BY DEF FileStates
  <2>2. atomic_replace(p, f, Passed(p, "directory"))
    BY <1>3 DEF unlink_record
  <2> HIDE DEF f
  <2>3. FilesOk(f, fresh)
    BY <2>1 DEF FilesOk
  <2>4. CASE Broken(p, files, procs[p].index) \/ Broken(p, f, procs[p].index)
    BY <1>1, <2>1, <2>3, <2>4, DeleteFails, Zenon
  <2>5. CASE files' = f /\ Passed(p, "directory") /\ UNCHANGED <<rules, lease, procs, fresh, troubles>>
    <3>1. calls' = [calls EXCEPT ![p] = [calls[p] EXCEPT !.step = "directory", !.done = TRUE]]
      BY <2>5, Zenon DEF Passed
    <3> QED
      BY <1>1, <2>1, <2>3, <2>5, <3>1, DeletesOn, Zenon
  <2> QED
    BY <2>2, <2>4, <2>5 DEF atomic_replace
<1>4. CASE remove_directory(p)
  <2>1. files.record = 0 /\ calls[p].done
    BY <1>1, <1>4, Zenon DEF remove_directory, At, CallOk
  <2>2. CASE files' = EmptyFiles /\ Goto(p, "rules") /\ UNCHANGED <<rules, lease, procs, fresh, troubles>>
    <3>1. calls' = [calls EXCEPT ![p] = [calls[p] EXCEPT !.step = "rules"]]
      BY <2>2 DEF Goto
    <3>2. [calls[p] EXCEPT !.step = "rules"] = [calls[p] EXCEPT !.step = "rules", !.done = TRUE]
      BY <2>1, Zenon DEF CallStates
    <3>3. calls' = [calls EXCEPT ![p] = [calls[p] EXCEPT !.step = "rules", !.done = TRUE]]
      BY <3>1, <3>2, Zenon
    <3> QED
      BY <1>1, <1>2, <2>2, <3>3, DeletesOn, Zenon
  <2>3. ASSUME NEW kept \in SUBSET {"log", "state", "leaf"},
               Broken(p, [IF "log" \in kept THEN files
                          ELSE [files EXCEPT !.lines = {}, !.tail = NoTail, !.junk = FALSE]
                          EXCEPT !.state = IF "state" \in kept THEN @ ELSE None,
                                 !.leaf = IF "leaf" \in kept THEN @ ELSE None],
                      procs[p].index)
        PROVE  StoreInv'
    <3> DEFINE log == IF "log" \in kept THEN files ELSE [files EXCEPT !.lines = {}, !.tail = NoTail, !.junk = FALSE]
               f == [log EXCEPT !.state = IF "state" \in kept THEN @ ELSE None,
                                !.leaf = IF "leaf" \in kept THEN @ ELSE None]
    <3>1. NoTail \in Tails /\ NoTail.id = 0 /\ ~NoTail.whole
      BY DEF NoTail, Tails
    <3>2. log \in FileStates /\ FilesOk(log, fresh) /\ log.record = 0
      <4>1. CASE "log" \in kept
        BY <2>1, <4>1
      <4>2. CASE "log" \notin kept
        <5>1. /\ log \in FileStates /\ log.lines = {} /\ log.tail = NoTail /\ ~log.junk /\ log.record = files.record
          BY <4>2, <3>1, Zenon DEF FileStates
        <5> QED
          BY <2>1, <3>1, <5>1 DEF FilesOk
      <4> QED
        BY <4>1, <4>2
    <3>3. Broken(p, f, procs[p].index)
      BY <2>3
    <3> HIDE DEF log
    <3>4. /\ f \in FileStates /\ f.lines = log.lines /\ f.tail = log.tail /\ f.junk = log.junk /\ f.record = 0
      BY <3>2, Zenon DEF FileStates
    <3> HIDE DEF f
    <3>5. FilesOk(f, fresh)
      BY <3>2, <3>4, Zenon DEF FilesOk
    <3> QED
      BY <1>1, <3>3, <3>4, <3>5, DeleteFails
  <2> QED
    BY <1>4, <2>2, <2>3, Zenon DEF remove_directory
<1>5. CASE clear_session_rules(p)
  <2>1. CASE Broken(p, files, procs[p].index)
    BY <1>1, <2>1, DeleteFails, Zenon
  <2>2. CASE rules' = FALSE /\ Ended(p, "ok") /\ UNCHANGED <<files, lease, procs, fresh, troubles>>
    <3>1. calls' = [calls EXCEPT ![p] = Idle("ok")]
      BY <2>2, SMTT(30) DEF Ended
    <3>2. ProcOk(procs[p], Idle("ok"), files, fresh) /\ Idle("ok") \in CallStates
      BY <1>1, EndedOk
    <3> QED
      BY <1>1, <2>2, <3>1, <3>2, StepsOn, Zenon
  <2> QED
    BY <1>5, <2>1, <2>2, Zenon DEF clear_session_rules
<1> QED
  BY <1>3, <1>4, <1>5

-----------------------------------------------------------------------------
(* The invariant.                                                          *)

\* It holds of an empty directory.
LEMMA InitInv == Init => StoreInv
<1> SUFFICES ASSUME Init PROVE StoreInv
  OBVIOUS
<1> USE StoreAssumption DEF Init
<1>1. TypeOK /\ calls \in [Runtimes -> CallStates]
  <2>1. \A p \in Runtimes : calls[p] \in CallStates
    BY Resting
  <2>2. calls \in [Runtimes -> CallStates] /\ procs \in [Runtimes -> ProcStates]
    BY <2>1, Resting
  <2>3. \A p \in Runtimes : calls[p].memory \in MemoryState \union {None} /\ calls[p].done \in BOOLEAN
    BY <2>1 DEF CallStates
  <2>4. files \in FileStates /\ rules \in BOOLEAN /\ lease \in Runtimes \union {None}
    BY Resting, Zenon
  <2>5. fresh \in 1..(MaxEntries + 1) /\ troubles \in 0..MaxTroubles
    OBVIOUS
  <2> QED
    BY <2>2, <2>3, <2>4, <2>5, Types
<1>2. \A p \in Runtimes : procs[p] = NewProcess /\ calls[p] = Idle("none")
  OBVIOUS
<1>3. OneAtATime
  BY <1>2 DEF OneAtATime, Quiet, NewProcess, Idle
<1>4. FilesOk(files, fresh)
  BY DEF FilesOk, EmptyFiles, NoTail
<1>5. /\ ~Engaged(NewProcess) /\ NewProcess.memory = NewMemory /\ NewProcess.index.ids = {}
      /\ Idle("none").kind = "idle" /\ NewProcess \in ProcStates /\ Idle("none") \in CallStates /\ fresh \in Nat
  BY Resting, Zenon DEF Engaged, NewProcess, NoIndex, Idle
<1>6. ProcOk(NewProcess, Idle("none"), files, fresh)
  BY <1>5, RestingOk
<1> QED
  BY <1>1, <1>2, <1>3, <1>4, <1>6 DEF StoreInv

\* Every step keeps it, as long as nobody takes an agent that is in use.
LEMMA NextInv == ASSUME ~Contended, StoreInv, [Next]_vars PROVE StoreInv'
<1>1. CASE UNCHANGED vars
  BY <1>1 DEF vars, StoreInv, TypeOK, OneAtATime, Quiet
<1>2. ASSUME NEW p \in Runtimes, Requests(p) PROVE StoreInv'
  BY <1>2, RequestsKeep
<1>3. ASSUME NEW p \in Runtimes, Steps(p) PROVE StoreInv'
  BY <1>3, AppendKeeps, SaveStateKeeps, SaveLeafKeeps, SaveRecordKeeps, DeleteKeeps DEF Steps
<1>4. ASSUME NEW p \in Runtimes, Crash(p) PROVE StoreInv'
  <2>1. Die(p) /\ UNCHANGED <<files, rules, fresh>> /\ troubles' = troubles + 1 /\ troubles < MaxTroubles
    BY <1>4 DEF Crash
  <2>2. troubles' \in 0..MaxTroubles
    BY <2>1, StoreAssumption, Facts
  <2> QED
    BY <2>1, <2>2, DieKeeps
<1> QED
  BY <1>1, <1>2, <1>3, <1>4 DEF Next

\* What is proved of the files, from hosts that do not take an agent in use.
THEOREM StoreIsSound == ASSUME ~Contended PROVE Spec => []StoreInv
<1>1. StoreInv /\ [Next]_vars => StoreInv'
  BY NextInv
<1> QED
  BY <1>1, InitInv, PTL DEF Spec

\* Neither a file nor a process names an entry the log does not hold, whichever
\* write was cut short: save_memory writes the log, the snapshot and the leaf
\* in this order, and the index learns of lines only once they are synced.
THEOREM LogIsAlwaysCommitted == ASSUME ~Contended PROVE Spec => []LogIsCommitted
<1>1. StoreInv => LogIsCommitted
  <2> SUFFICES ASSUME StoreInv PROVE LogIsCommitted
    OBVIOUS
  <2>1. LeafIsLogged
    BY DEF StoreInv, FilesOk, LeafIsLogged
  <2>2. IndexIsLogged
    BY DEF StoreInv, ProcOk, KnowsLog, IndexIsLogged
  <2> QED
    BY <2>1, <2>2 DEF StoreInv, LogIsCommitted
<1> QED
  BY <1>1, StoreIsSound, PTL

-----------------------------------------------------------------------------
(* What a step does to the operations, and to what can be loaded.          *)

\* What the contract sees of an operation, and of a sound directory.
View(call) == [kind |-> call.kind, record |-> call.record, memory |-> call.memory,
               done |-> call.done, result |-> call.result]
Shown(f) == IF f.record = 0 THEN None ELSE [record |-> f.record, memory |-> f.state]

\* A sound directory loads as it stands.
LEMMA ShownLoads == ASSUME NEW f, NEW n, FilesOk(f, n) PROVE load_agent(f) = Shown(f)
BY DEF FilesOk, load_agent, Loads, read_log, Shown

\* Passed marks an operation done, and goes on.
Marked(old, step) == [old EXCEPT !.step = step, !.done = TRUE]

\* The caller sees no more than that.
LEMMA Marking ==
    ASSUME NEW old \in CallStates, NEW step \in CallSteps
    PROVE  /\ Marked(old, step) \in CallStates /\ Marked(old, step).kind = old.kind
           /\ Marked(old, step).record = old.record /\ Marked(old, step).memory = old.memory
           /\ Marked(old, step).done = TRUE /\ Marked(old, step).result = old.result
BY Zenon DEF Marked, CallStates

\* An operation that breaks off returns an error.
LEMMA BrokenReturns ==
    ASSUME NEW p \in Runtimes, calls[p].kind # "idle", NEW f, NEW index, Broken(p, f, index)
    PROVE  calls' = [calls EXCEPT ![p] = Idle("error")] /\ files' = f /\ rules' = rules
BY DEF Broken, Ended, Die

\* An operation begins.
LEMMA BeginsIt ==
    ASSUME NEW p \in Runtimes, calls \in [Runtimes -> CallStates], NEW call \in CallStates,
           calls[p].kind = "idle", call.kind # "idle", ~call.done,
           calls' = [calls EXCEPT ![p] = call], files' = files
    PROVE  Contract!ContractNext
<1>1. Contract!Begin(p)
  BY Zenon DEF Contract!Begin, CallStates
<1> QED
  BY <1>1 DEF Contract!ContractNext

\* It takes effect.
LEMMA CommitsIt ==
    ASSUME NEW p \in Runtimes, calls \in [Runtimes -> CallStates], NEW step \in CallSteps,
           calls[p].kind # "idle", ~calls[p].done, Passed(p, step),
           load_agent(files') = Contract!Effect(View(calls[p]), load_agent(files))
    PROVE  Contract!ContractNext
<1> DEFINE call == Marked(calls[p], step)
<1>1. calls' = [calls EXCEPT ![p] = call]
  BY Zenon DEF Passed, Marked
<1>2. /\ call.kind = calls[p].kind /\ call.record = calls[p].record /\ call.memory = calls[p].memory
      /\ call.done = TRUE /\ call.result = calls[p].result
  BY Marking, Zenon
<1> HIDE DEF call
<1>3. Contract!Commit(p)
  BY <1>1, <1>2, Zenon DEF Contract!Commit, View
<1> QED
  BY <1>3 DEF Contract!ContractNext

\* It returns, done or with an error.
LEMMA ReturnsIt ==
    ASSUME NEW p \in Runtimes, calls \in [Runtimes -> CallStates], NEW r \in {"ok", "error"},
           calls[p].kind # "idle", r = "ok" => calls[p].done,
           calls' = [calls EXCEPT ![p] = Idle(r)], load_agent(files') = load_agent(files)
    PROVE  Contract!ContractNext
<1>1. Contract!Return(p)
  BY Zenon DEF Contract!Return, Contract!Idle, Idle
<1> QED
  BY <1>1 DEF Contract!ContractNext

\* It takes effect and returns at once.
LEMMA CommitsAndReturns ==
    ASSUME NEW p \in Runtimes, calls \in [Runtimes -> CallStates], NEW r \in {"ok", "error"},
           calls[p].kind # "idle", ~calls[p].done, calls' = [calls EXCEPT ![p] = Idle(r)],
           load_agent(files') = Contract!Effect(View(calls[p]), load_agent(files))
    PROVE  Contract!ContractNext
<1>1. Contract!CommitAndReturn(p)
  BY Zenon DEF Contract!CommitAndReturn, Contract!Idle, Idle, View
<1> QED
  BY <1>1 DEF Contract!ContractNext

\* What a step of the contract leaves alone.
Unseen == UNCHANGED <<load_agent(files),
                      [p \in Runtimes |-> [kind |-> calls[p].kind, record |-> calls[p].record,
                                           memory |-> calls[p].memory, done |-> calls[p].done,
                                           result |-> calls[p].result]]>>

\* A step the caller does not see.
LEMMA GoesOn ==
    ASSUME NEW p \in Runtimes, calls \in [Runtimes -> CallStates], NEW call, View(call) = View(calls[p]),
           calls' = [calls EXCEPT ![p] = call], load_agent(files') = load_agent(files)
    PROVE  Unseen
BY DEF View, Unseen

\* What the effect of an operation is, of an agent that is listed or is not.
LEMMA Effects ==
    ASSUME NEW call \in CallStates, NEW s, s # None
    PROVE  /\ call.kind = "create" => Contract!Effect(View(call), None) = [record |-> call.record, memory |-> call.memory]
           /\ call.kind = "delete" => Contract!Effect(View(call), s) = None /\ Contract!Effect(View(call), None) = None
           /\ call.kind = "memory" => Contract!Effect(View(call), s) = [s EXCEPT !.memory = call.memory]
           /\ call.kind = "record" => Contract!Effect(View(call), s) = [s EXCEPT !.record = call.record]
BY DEF View, Contract!Effect

\* A listed agent is not None.
LEMMA ListedIsSome ==
    ASSUME NEW f \in FileStates, f.record # 0
    PROVE  Shown(f) = [record |-> f.record, memory |-> f.state] /\ Shown(f) # None
<1>1. f.record \in 1..MaxRecords /\ f.state \in MemoryState \union {None}
  BY StoreAssumption DEF FileStates
<1>2. Shown(f) = [record |-> f.record, memory |-> f.state]
  BY DEF Shown
<1>3. Shown(f) \in [record : 1..MaxRecords, memory : MemoryState \union {None}]
  BY <1>1, <1>2
<1> QED
  BY <1>2, <1>3, NoneAssumption

Allowed == Contract!ContractNext \/ Unseen

\* Before and after a step, the directory loads as it stands.
LEMMA BothLoad ==
    ASSUME StoreInv, StoreInv'
    PROVE  /\ load_agent(files) = Shown(files) /\ load_agent(files') = Shown(files')
           /\ calls \in [Runtimes -> CallStates]
<1>1. FilesOk(files, fresh) /\ FilesOk(files', fresh') /\ calls \in [Runtimes -> CallStates]
  BY DEF StoreInv
<1> QED
  BY <1>1, ShownLoads

\* An operation that breaks off, with no effect or all of it.
LEMMA BreaksOff ==
    ASSUME StoreInv, StoreInv', NEW p \in Runtimes, calls[p].kind # "idle", NEW f, NEW index, Broken(p, f, index),
           \/ Shown(f) = Shown(files)
           \/ ~calls[p].done /\ Shown(f) = Contract!Effect(View(calls[p]), Shown(files))
    PROVE  Allowed
<1>1. calls' = [calls EXCEPT ![p] = Idle("error")] /\ files' = f
  BY BrokenReturns
<1>2. CASE Shown(f) = Shown(files)
  BY <1>1, <1>2, BothLoad, ReturnsIt, Zenon DEF Allowed
<1>3. CASE ~calls[p].done /\ Shown(f) = Contract!Effect(View(calls[p]), Shown(files))
  BY <1>1, <1>3, BothLoad, CommitsAndReturns, Zenon DEF Allowed
<1> QED
  BY <1>2, <1>3

\* A request begins an operation, or shows nowhere.
LEMMA RequestsAllowed == ASSUME StoreInv, StoreInv', NEW p \in Runtimes, Requests(p) PROVE Allowed
<1>1. ASSUME NEW kind \in {"create", "memory", "record", "delete"}, NEW step, NEW record, NEW memory,
             calls[p].kind = "idle", files' = files, calls' = [calls EXCEPT ![p] = Call(kind, step, record, memory)]
      PROVE  Allowed
  <2> DEFINE call == Call(kind, step, record, memory)
  <2>1. call.kind = kind /\ ~call.done
    BY DEF Call
  <2>2. call = calls'[p] /\ calls'[p] \in CallStates /\ calls \in [Runtimes -> CallStates]
    BY <1>1 DEF StoreInv
  <2>3. calls' = [calls EXCEPT ![p] = call]
    BY <1>1
  <2> HIDE DEF call
  <2> QED
    BY <1>1, <2>1, <2>2, <2>3, BeginsIt, Zenon DEF Allowed
<1>2. CASE UNCHANGED <<files, calls>>
  BY <1>2 DEF Allowed, Unseen
<1>3. CASE Spawn(p)
  BY <1>1, <1>3, Zenon DEF Spawn, Quiet
<1>4. CASE Persist(p)
  <2>1. PICK m \in Successors(procs[p].memory) : calls' = [calls EXCEPT ![p] = Call("memory", "append", 0, m)]
    BY <1>4, Zenon DEF Persist
  <2> QED
    BY <1>1, <1>4, <2>1, Zenon DEF Persist
<1>5. CASE persist_agent_record(p)
  BY <1>1, <1>5, Zenon DEF persist_agent_record
<1>6. CASE Resume(p)
  <2>1. CASE NeedsRecovery(files.state)
    <3>1. PICK r \in Recovered(files.state) : calls' = [calls EXCEPT ![p] = Call("memory", "append", 0, r)]
      BY <1>6, <2>1, Zenon DEF Resume
    <3>2. calls[p].kind = "idle" /\ files' = files
      BY <1>6, Zenon DEF Resume, Quiet
    <3> QED
      BY <1>1, <3>1, <3>2, Zenon
  <2>2. CASE ~NeedsRecovery(files.state)
    BY <1>2, <1>6, <2>2, Zenon DEF Resume
  <2> QED
    BY <2>1, <2>2
<1>7. CASE ResumeRecord(p)
  BY <1>1, <1>7, Zenon DEF ResumeRecord
<1>8. CASE delete_agent(p)
  BY <1>1, <1>8, Zenon DEF delete_agent, Quiet
<1>9. CASE remember_rule(p) \/ acquire_lease(p) \/ DropAgent(p) \/ DropRuntime(p)
  BY <1>2, <1>9 DEF remember_rule, acquire_lease, DropAgent, DropRuntime
<1> QED
  BY <1>3, <1>4, <1>5, <1>6, <1>7, <1>8, <1>9 DEF Requests

\* The log is nothing a load shows.
LEMMA AppendAllowed == ASSUME StoreInv, StoreInv', NEW p \in Runtimes, append_missing(p) PROVE Allowed
<1>1. calls[p].kind # "idle"
  BY Zenon DEF append_missing, At
<1>2. ASSUME NEW f, f.record = files.record, f.state = files.state PROVE Shown(f) = Shown(files)
  BY <1>2 DEF Shown
<1>3. ASSUME Goto(p, "state"), files'.record = files.record, files'.state = files.state PROVE Allowed
  <2> DEFINE call == [calls[p] EXCEPT !.step = "state"]
  <2>1. calls' = [calls EXCEPT ![p] = call] /\ View(call) = View(calls[p])
    BY <1>3, Facts DEF Goto, View, CallStates
  <2> HIDE DEF call
  <2> QED
    BY <1>2, <1>3, <2>1, BothLoad, GoesOn, Zenon DEF Allowed
<1>4. ASSUME NEW f, NEW index, Broken(p, f, index), f.record = files.record, f.state = files.state PROVE Allowed
  BY <1>1, <1>2, <1>4, BreaksOff
<1>5. CASE Goto(p, "state") /\ files' = files
  BY <1>3, <1>5
<1>6. ASSUME NEW w, Goto(p, "state"), files' = [drop_truncated_tail(files) EXCEPT !.lines = @ \union w]
      PROVE  Allowed
  <2>1. files'.record = files.record /\ files'.state = files.state
    BY <1>6, Facts DEF drop_truncated_tail, FileStates
  <2> QED
    BY <1>3, <1>6, <2>1
<1>7. ASSUME NEW w, NEW tail, NEW index,
             Broken(p, [drop_truncated_tail(files) EXCEPT !.lines = @ \union w, !.tail = tail], index)
      PROVE  Allowed
  <2> DEFINE f == [drop_truncated_tail(files) EXCEPT !.lines = @ \union w, !.tail = tail]
  <2>1. f.record = files.record /\ f.state = files.state
    BY Facts DEF drop_truncated_tail, FileStates
  <2>2. Broken(p, f, index)
    BY <1>7
  <2> HIDE DEF f
  <2> QED
    BY <1>4, <2>1, <2>2
<1>8. ASSUME NEW index, Broken(p, files, index) PROVE Allowed
  BY <1>4, <1>8
<1> QED
  BY <1>5, <1>6, <1>7, <1>8, Zenon DEF append_missing

\* state.json: the effect of a save of the memory, and no effect yet of a creation.
LEMMA SaveStateAllowed == ASSUME StoreInv, StoreInv', NEW p \in Runtimes, save_state(p) PROVE Allowed
<1> USE Facts
<1> DEFINE f == [files EXCEPT !.state = calls[p].memory]
           next == IF calls[p].kind = "memory" THEN Passed(p, "leaf") ELSE Goto(p, "leaf")
<1>1. At(p, "state") /\ atomic_replace(p, f, next)
  BY DEF save_state
<1>2. /\ calls[p].kind \in {"create", "memory"} /\ calls[p].kind # "idle" /\ ~calls[p].done
      /\ calls[p].kind = "create" => files.record = 0
      /\ calls[p].kind = "memory" => files.record # 0
  <2>1. calls[p].kind \in {"create", "memory"} /\ calls[p].kind # "idle" /\ ~calls[p].done
    BY <1>1 DEF At, CallOk, CallStates
  <2> QED
    BY <1>1, <2>1, Saving
<1>3. f \in FileStates /\ f.record = files.record /\ f.state = calls[p].memory
  BY DEF FileStates, CallStates
<1> HIDE DEF f
<1>4. CASE calls[p].kind = "create"
  <2>1. Shown(f) = Shown(files)
    BY <1>2, <1>3, <1>4 DEF Shown
  <2>2. CASE files' = f /\ next
    <3> DEFINE call == [calls[p] EXCEPT !.step = "leaf"]
    <3>1. calls' = [calls EXCEPT ![p] = call] /\ View(call) = View(calls[p])
      BY <1>4, <2>2 DEF Goto, View, CallStates
    <3> HIDE DEF call
    <3> QED
      BY <2>1, <2>2, <3>1, BothLoad, GoesOn, Zenon DEF Allowed
  <2>3. CASE Broken(p, files, procs[p].index) \/ Broken(p, f, procs[p].index)
    BY <1>2, <2>1, <2>3, BreaksOff
  <2> QED
    BY <1>1, <2>2, <2>3 DEF atomic_replace
<1>5. CASE calls[p].kind = "memory"
  <2>1. Shown(f) = Contract!Effect(View(calls[p]), Shown(files))
    <3>1. /\ Shown(f) = [record |-> f.record, memory |-> f.state]
          /\ Shown(files) = [record |-> files.record, memory |-> files.state] /\ Shown(files) # None
      BY <1>2, <1>3, <1>5, ListedIsSome
    <3>2. Contract!Effect(View(calls[p]), Shown(files)) = [Shown(files) EXCEPT !.memory = calls[p].memory]
      BY <1>5, <3>1, Effects
    <3> QED
      BY <1>3, <3>1, <3>2
  <2>2. CASE files' = f /\ next
    <3>1. Passed(p, "leaf") /\ "leaf" \in CallSteps
      BY <1>5, <2>2 DEF CallSteps
    <3> QED
      BY <1>2, <2>1, <2>2, <3>1, BothLoad, CommitsIt DEF Allowed
  <2>3. CASE Broken(p, files, procs[p].index) \/ Broken(p, f, procs[p].index)
    BY <1>2, <2>1, <2>3, BreaksOff
  <2> QED
    BY <1>1, <2>2, <2>3 DEF atomic_replace
<1> QED
  BY <1>2, <1>4, <1>5

\* leaf: no load reads it, and a save of the memory returns.
LEMMA SaveLeafAllowed == ASSUME StoreInv, StoreInv', NEW p \in Runtimes, save_leaf(p) PROVE Allowed
<1> USE Facts
<1> DEFINE f == [files EXCEPT !.leaf = leaf(calls[p].memory)]
           next == IF calls[p].kind = "create" THEN Goto(p, "record") ELSE Ended(p, "ok")
<1>1. At(p, "leaf") /\ atomic_replace(p, f, next)
  BY DEF save_leaf
<1>2. /\ calls[p].kind \in {"create", "memory"} /\ calls[p].kind # "idle"
      /\ calls[p].kind = "memory" => calls[p].done
  BY <1>1 DEF At, CallOk, CallStates
<1>3. Shown(f) = Shown(files)
  BY DEF Shown, FileStates
<1> HIDE DEF f
<1>4. CASE files' = f /\ next
  <2>1. CASE calls[p].kind = "create"
    <3> DEFINE call == [calls[p] EXCEPT !.step = "record"]
    <3>1. calls' = [calls EXCEPT ![p] = call] /\ View(call) = View(calls[p])
      BY <1>4, <2>1 DEF Goto, View, CallStates
    <3> HIDE DEF call
    <3> QED
      BY <1>3, <1>4, <3>1, BothLoad, GoesOn, Zenon DEF Allowed
  <2>2. CASE calls[p].kind = "memory"
    <3>1. calls' = [calls EXCEPT ![p] = Idle("ok")]
      BY <1>4, <2>2 DEF Ended
    <3> QED
      BY <1>2, <1>3, <1>4, <2>2, <3>1, BothLoad, ReturnsIt, Zenon DEF Allowed
  <2> QED
    BY <1>2, <2>1, <2>2
<1>5. CASE Broken(p, files, procs[p].index) \/ Broken(p, f, procs[p].index)
  BY <1>2, <1>3, <1>5, BreaksOff
<1> QED
  BY <1>1, <1>4, <1>5 DEF atomic_replace

\* agent.json: the effect of a creation, whose snapshot is there, and of a save
\* of the record.
LEMMA SaveRecordAllowed == ASSUME StoreInv, StoreInv', NEW p \in Runtimes, save_record(p) PROVE Allowed
<1> USE Facts
<1> DEFINE f == [files EXCEPT !.record = calls[p].record]
<1>1. At(p, "record") /\ atomic_replace(p, f, Ended(p, "ok"))
  BY DEF save_record
<1>2. /\ calls[p].kind \in {"create", "record"} /\ calls[p].kind # "idle" /\ ~calls[p].done
      /\ calls[p].record # 0 /\ calls[p].record \in 0..MaxRecords
      /\ calls[p].kind = "create" => files.state = calls[p].memory /\ files.record = 0
      /\ calls[p].kind = "record" => files.record # 0
  BY <1>1 DEF At, CallOk, CallStates, HasAgent
<1>3. f \in FileStates /\ f.record = calls[p].record /\ f.state = files.state
  BY <1>2 DEF FileStates
<1> HIDE DEF f
<1>4. Shown(f) = Contract!Effect(View(calls[p]), Shown(files))
  <2>1. Shown(f) = [record |-> calls[p].record, memory |-> files.state] /\ Shown(f) # None
    BY <1>2, <1>3, ListedIsSome
  <2>2. CASE calls[p].kind = "create"
    <3>1. Shown(files) = None
      BY <1>2, <2>2 DEF Shown
    <3>2. Contract!Effect(View(calls[p]), None) = [record |-> calls[p].record, memory |-> calls[p].memory]
      BY <2>1, <2>2, Effects
    <3> QED
      BY <1>2, <2>1, <2>2, <3>1, <3>2, Zenon
  <2>3. CASE calls[p].kind = "record"
    <3>1. Shown(files) = [record |-> files.record, memory |-> files.state] /\ Shown(files) # None
      BY <1>2, <2>3, ListedIsSome, Zenon
    <3>2. Contract!Effect(View(calls[p]), Shown(files)) = [Shown(files) EXCEPT !.record = calls[p].record]
      BY <2>3, <3>1, Effects
    <3> QED
      BY <2>1, <3>1, <3>2
  <2> QED
    BY <1>2, <2>2, <2>3, Zenon
<1>5. CASE files' = f /\ Ended(p, "ok")
  <2>1. calls' = [calls EXCEPT ![p] = Idle("ok")]
    BY <1>5 DEF Ended
  <2> QED
    BY <1>2, <1>4, <1>5, <2>1, BothLoad, CommitsAndReturns, Zenon DEF Allowed
<1>6. CASE Broken(p, files, procs[p].index) \/ Broken(p, f, procs[p].index)
  BY <1>2, <1>4, <1>6, BreaksOff, Zenon
<1> QED
  BY <1>1, <1>5, <1>6 DEF atomic_replace

\* A delete takes effect when agent.json goes; the rest is not listed any more.
LEMMA DeleteAllowed ==
    ASSUME StoreInv, StoreInv', NEW p \in Runtimes,
           unlink_record(p) \/ remove_directory(p) \/ clear_session_rules(p)
    PROVE  Allowed
<1> USE Facts
<1>1. calls[p].kind = "delete" /\ calls[p].kind # "idle"
  BY Deleting, Zenon DEF unlink_record, remove_directory, clear_session_rules
<1>2. CASE unlink_record(p)
  <2> DEFINE f == [files EXCEPT !.record = 0]
  <2>1. At(p, "unlink") /\ atomic_replace(p, f, Passed(p, "directory")) /\ ~calls[p].done
    BY <1>1, <1>2 DEF unlink_record, CallOk, At
  <2>2. f.record = 0
    BY DEF FileStates
  <2> HIDE DEF f
  <2>3. Shown(f) = Contract!Effect(View(calls[p]), Shown(files))
    BY <1>1, <2>2, SMTT(30) DEF Shown, View, Contract!Effect
  <2>4. CASE files' = f /\ Passed(p, "directory")
    <3>1. "directory" \in CallSteps
      BY DEF CallSteps
    <3> QED
      BY <1>1, <2>1, <2>3, <2>4, <3>1, BothLoad, CommitsIt DEF Allowed
  <2>5. CASE Broken(p, files, procs[p].index) \/ Broken(p, f, procs[p].index)
    BY <1>1, <2>1, <2>3, <2>5, BreaksOff
  <2> QED
    BY <2>1, <2>4, <2>5 DEF atomic_replace
<1>3. CASE remove_directory(p)
  <2>1. files.record = 0
    BY <1>1, <1>3, Zenon DEF remove_directory, At, CallOk
  <2>2. ASSUME NEW f, f.record = 0 PROVE Shown(f) = Shown(files)
    BY <2>1, <2>2, Zenon DEF Shown
  <2>3. CASE files' = EmptyFiles /\ Goto(p, "rules")
    <3> DEFINE call == [calls[p] EXCEPT !.step = "rules"]
    <3>1. calls' = [calls EXCEPT ![p] = call] /\ View(call) = View(calls[p])
      BY <2>3 DEF Goto, View, CallStates
    <3>2. EmptyFiles.record = 0
      BY DEF EmptyFiles
    <3> HIDE DEF call
    <3> QED
      BY <2>2, <2>3, <3>1, <3>2, BothLoad, GoesOn, Zenon DEF Allowed
  <2>4. ASSUME NEW kept \in SUBSET {"log", "state", "leaf"},
               Broken(p, [IF "log" \in kept THEN files
                          ELSE [files EXCEPT !.lines = {}, !.tail = NoTail, !.junk = FALSE]
                          EXCEPT !.state = IF "state" \in kept THEN @ ELSE None,
                                 !.leaf = IF "leaf" \in kept THEN @ ELSE None],
                      procs[p].index)
        PROVE  Allowed
    <3> DEFINE log == IF "log" \in kept THEN files ELSE [files EXCEPT !.lines = {}, !.tail = NoTail, !.junk = FALSE]
               f == [log EXCEPT !.state = IF "state" \in kept THEN @ ELSE None,
                                !.leaf = IF "leaf" \in kept THEN @ ELSE None]
    <3>1. log \in FileStates /\ log.record = 0
      <4>1. CASE "log" \in kept
        BY <2>1, <4>1
      <4>2. CASE "log" \notin kept
        <5>1. NoTail \in Tails
          BY DEF NoTail, Tails
        <5> QED
          BY <2>1, <4>2, <5>1, Zenon DEF FileStates
      <4> QED
        BY <4>1, <4>2
    <3>2. Broken(p, f, procs[p].index)
      BY <2>4
    <3> HIDE DEF log
    <3>3. f.record = 0
      BY <3>1 DEF FileStates
    <3> HIDE DEF f
    <3> QED
      BY <1>1, <2>2, <3>2, <3>3, BreaksOff
  <2> QED
    BY <1>3, <2>3, <2>4, Zenon DEF remove_directory
<1>4. CASE clear_session_rules(p)
  <2>1. calls[p].done
    BY <1>1, <1>4, Zenon DEF clear_session_rules, At, CallOk
  <2>2. CASE Ended(p, "ok") /\ files' = files
    <3>1. calls' = [calls EXCEPT ![p] = Idle("ok")]
      BY <2>2 DEF Ended
    <3> QED
      BY <1>1, <2>1, <2>2, <3>1, BothLoad, ReturnsIt, Zenon DEF Allowed
  <2>3. CASE Broken(p, files, procs[p].index)
    BY <1>1, <2>3, BreaksOff
  <2> QED
    BY <1>4, <2>2, <2>3 DEF clear_session_rules
<1> QED
  BY <1>2, <1>3, <1>4

\* Every step is one of the contract's, or shows nowhere.
LEMMA NextAllowed == ASSUME StoreInv, StoreInv', [Next]_vars PROVE Allowed
<1>1. CASE UNCHANGED vars
  BY <1>1 DEF vars, Allowed, Unseen
<1>2. ASSUME NEW p \in Runtimes, Steps(p) PROVE Allowed
  BY <1>2, AppendAllowed, SaveStateAllowed, SaveLeafAllowed, SaveRecordAllowed, DeleteAllowed DEF Steps
<1>3. ASSUME NEW p \in Runtimes, Crash(p) PROVE Allowed
  <2>1. Die(p) /\ files' = files
    BY <1>3 DEF Crash
  <2>2. CASE calls[p].kind = "idle"
    BY <2>1, <2>2 DEF Die, Allowed, Unseen
  <2>3. CASE calls[p].kind # "idle"
    <3>1. calls' = [calls EXCEPT ![p] = Idle("error")]
      BY <2>1, <2>3 DEF Die
    <3> QED
      BY <2>1, <2>3, <3>1, BothLoad, ReturnsIt, Zenon DEF Allowed
  <2> QED
    BY <2>2, <2>3
<1> QED
  BY <1>1, <1>2, <1>3, RequestsAllowed DEF Next

\* Whatever write fails and whoever dies, the four files change what load_agent
\* returns only as the trait promises: each operation shows as a whole at one
\* moment, or not at all, and one that returned Ok has shown.
THEOREM FilesImplementTheStore == ASSUME ~Contended PROVE Spec => ImplementsAgentStore
<1>1. Init => Contract!ContractInit
  <2> SUFFICES ASSUME Init PROVE Contract!ContractInit
    OBVIOUS
  <2>1. load_agent(files) = None
    BY DEF Init, load_agent, EmptyFiles
  <2>2. \A p \in Runtimes : calls[p] = Idle("none")
    BY DEF Init
  <2>3. /\ Idle("none").kind = "idle" /\ Idle("none").record = 0 /\ Idle("none").memory = None
        /\ Idle("none").done = FALSE /\ Idle("none").result = "none"
    BY DEF Idle
  <2> QED
    BY <2>1, <2>2, <2>3, Zenon DEF Contract!ContractInit, Contract!Idle
<1>2. StoreInv /\ StoreInv' /\ [Next]_vars
      => [Contract!ContractNext]_<<load_agent(files),
             [p \in Runtimes |-> [kind |-> calls[p].kind, record |-> calls[p].record, memory |-> calls[p].memory,
                                  done |-> calls[p].done, result |-> calls[p].result]]>>
  BY NextAllowed DEF Allowed, Unseen
<1> QED
  BY <1>1, <1>2, StoreIsSound, PTL DEF Spec, ImplementsAgentStore, Contract!ContractSpec

\* A session's remembered decisions go only after agent.json has, and a delete
\* that returned Ok has left neither files nor rules: delete_agent clears them
\* last.
THEOREM RulesGoLast == ASSUME ~Contended PROVE Spec => DeletesInOrder
<1> DEFINE InOrder ==
        /\ rules /\ ~rules' => files.record = 0
        /\ \A p \in Runtimes :
               calls[p].kind = "delete" /\ calls'[p] = Idle("ok") => files' = EmptyFiles /\ ~rules'
<1>1. ASSUME StoreInv, Next PROVE InOrder
  <2> USE Facts
  <2>1. PICK q \in Runtimes : Requests(q) \/ Steps(q) \/ Crash(q)
    BY <1>1 DEF Next
  <2>2. calls \in [Runtimes -> CallStates] /\ Idle("error") # Idle("ok") /\ Idle("ok").kind = "idle"
    BY <1>1 DEF StoreInv, Idle
  <2>3. ASSUME NEW call, calls' = [calls EXCEPT ![q] = call], rules => rules',
               calls[q].kind = "delete" => call # Idle("ok")
        PROVE  InOrder
    BY <2>2, <2>3
  <2>4. ASSUME NEW f, NEW index, calls[q].kind # "idle", Broken(q, f, index) PROVE InOrder
    BY <2>2, <2>3, <2>4, BrokenReturns
  <2>5. CASE Requests(q)
    <3>1. calls[q].kind # "delete"
      <4>1. calls[q].kind = "idle" \/ remember_rule(q)
        BY <2>5, Zenon DEF Requests, Spawn, Persist, persist_agent_record, Resume, ResumeRecord, acquire_lease,
                    DropAgent, DropRuntime, delete_agent, Quiet
      <4> QED
        BY <4>1 DEF remember_rule
    <3>2. rules => rules'
      <4>1. rules' = rules \/ remember_rule(q)
        BY <2>5, Zenon DEF Requests, Spawn, Persist, persist_agent_record, Resume, ResumeRecord, acquire_lease,
                    DropAgent, DropRuntime, delete_agent
      <4> QED
        BY <4>1 DEF remember_rule
    <3>3. calls' = [calls EXCEPT ![q] = calls'[q]]
      BY <2>2, <2>5, Zenon DEF Requests, Spawn, Persist, persist_agent_record, remember_rule, Resume, ResumeRecord,
                  acquire_lease, DropAgent, DropRuntime, delete_agent
    <3> QED
      BY <2>3, <3>1, <3>2, <3>3
  <2>6. CASE Crash(q)
    <3>1. rules' = rules /\ calls' = [calls EXCEPT ![q] = IF calls[q].kind = "idle" THEN calls[q] ELSE Idle("error")]
      BY <2>2, <2>6, Zenon DEF Crash, Die
    <3> DEFINE call == IF calls[q].kind = "idle" THEN calls[q] ELSE Idle("error")
    <3>2. calls[q].kind = "delete" => call # Idle("ok")
      BY <2>2
    <3>3. calls' = [calls EXCEPT ![q] = call]
      BY <3>1
    <3> HIDE DEF call
    <3> QED
      BY <2>3, <3>1, <3>2, <3>3, Zenon
  <2>7. CASE clear_session_rules(q)
    <3>1. calls[q].kind = "delete" /\ files.record = 0 /\ files = EmptyFiles
      <4>1. calls[q].kind = "delete" /\ calls[q].step = "rules"
        BY <1>1, <2>7, Deleting, Zenon DEF clear_session_rules, At
      <4>2. CallOk(procs[q], calls[q], files)
        BY <1>1, SMTT(30)
      <4> QED
        BY <4>1, <4>2, Zenon DEF CallOk
    <3>2. CASE Broken(q, files, procs[q].index)
      BY <2>4, <3>1, <3>2
    <3>3. CASE rules' = FALSE /\ Ended(q, "ok") /\ files' = files
      BY <2>2, <3>1, <3>3 DEF Ended
    <3> QED
      BY <2>7, <3>2, <3>3, Zenon DEF clear_session_rules
  <2>8. CASE append_missing(q)
    <3>1. calls[q].kind # "idle" /\ calls[q].kind # "delete"
      BY <1>1, <2>8, Zenon DEF append_missing, At, CallOk
    <3>2. CASE \E f, index : Broken(q, f, index)
      BY <2>4, <3>1, <3>2
    <3>3. CASE rules' = rules /\ Goto(q, "state")
      BY <2>3, <3>1, <3>3, Zenon DEF Goto
    <3> QED
      BY <2>8, <3>2, <3>3, Zenon DEF append_missing
  <2>9. ASSUME NEW f, calls[q].kind # "idle",
               Broken(q, files, procs[q].index) \/ Broken(q, f, procs[q].index)
        PROVE  InOrder
    BY <2>4, <2>9
  <2>10. CASE save_state(q) \/ save_leaf(q) \/ save_record(q)
    <3>1. calls[q].kind # "idle" /\ calls[q].kind # "delete"
      BY <1>1, <2>10 DEF save_state, save_leaf, save_record, At, CallOk
    <3>2. CASE rules' = rules /\ calls' = [calls EXCEPT ![q] = calls'[q]]
      BY <2>3, <3>1, <3>2
    <3>3. PICK f : \/ /\ Passed(q, "leaf") \/ Goto(q, "leaf") \/ Goto(q, "record") \/ Ended(q, "ok")
                      /\ rules' = rules
                   \/ Broken(q, files, procs[q].index) \/ Broken(q, f, procs[q].index)
      BY <2>10, SMTT(30) DEF save_state, save_leaf, save_record, atomic_replace
    <3>4. CASE Passed(q, "leaf") \/ Goto(q, "leaf") \/ Goto(q, "record") \/ Ended(q, "ok")
      <4>1. calls' = [calls EXCEPT ![q] = calls'[q]]
        BY <2>2, <3>4 DEF Passed, Goto, Ended
      <4> QED
        BY <2>9, <3>1, <3>2, <3>3, <4>1
    <3> QED
      BY <2>9, <3>1, <3>3, <3>4, Zenon
  <2>11. CASE unlink_record(q) \/ remove_directory(q)
    <3>1. calls[q].kind = "delete"
      BY <1>1, <2>11, Deleting, Zenon DEF unlink_record, remove_directory
    <3>2. CASE \E f, index : Broken(q, f, index)
      BY <2>4, <3>1, <3>2, Zenon
    <3>3. CASE rules' = rules /\ (Passed(q, "directory") \/ Goto(q, "rules"))
      <4>1. PICK call : calls' = [calls EXCEPT ![q] = call] /\ call.kind = "delete"
        <5>1. ASSUME NEW step PROVE [calls[q] EXCEPT !.step = step].kind = "delete"
          BY <2>2, <3>1 DEF CallStates
        <5>2. ASSUME NEW step PROVE [calls[q] EXCEPT !.step = step, !.done = TRUE].kind = "delete"
          BY <2>2, <3>1 DEF CallStates
        <5>3. CASE Passed(q, "directory")
          BY <5>2, <5>3, Zenon DEF Passed
        <5>4. CASE Goto(q, "rules")
          BY <5>1, <5>4, Zenon DEF Goto
        <5> QED
          BY <3>3, <5>3, <5>4
      <4>2. call # Idle("ok")
        BY <2>2, <4>1
      <4> QED
        BY <2>3, <3>3, <4>1, <4>2, Zenon
    <3> QED
      BY <2>11, <3>2, <3>3, Zenon DEF unlink_record, remove_directory, atomic_replace
  <2> QED
    BY <2>1, <2>5, <2>6, <2>7, <2>8, <2>10, <2>11, Zenon DEF Steps
<1>2. ASSUME UNCHANGED vars PROVE [InOrder]_vars
  BY <1>2
<1>3. StoreInv /\ [Next]_vars => [InOrder]_vars
  BY <1>1, <1>2
<1> QED
  BY <1>3, StoreIsSound, PTL DEF Spec, DeletesInOrder
=============================================================================
