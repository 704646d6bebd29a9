------------------------------ MODULE Session -------------------------------
(***************************************************************************)
(* A session of a host (mentra/src/session): the rules it remembers, the   *)
(* approvals it asks for, and its events.                                  *)
(***************************************************************************)
EXTENDS Naturals, FiniteSets, FiniteSetsExt, Sequences, SequencesExt

(***************************************************************************)
(* Remembered permission rules: their addresses, how each of the three     *)
(* stores edits its rows, and which rule answers a call.  A tool's name, a *)
(* call's input and a reason are members of small sets; a pattern is a     *)
(* number, in the order of the patterns' texts, with the inputs it matches.*)
(***************************************************************************)

CONSTANTS Tools,       \* tool names
          Inputs,      \* JSON encodings of a call's structured input
          Covers,      \* Covers[p]: the inputs pattern p matches
          None         \* Option::None

ASSUME CoversAssumption == \A p \in DOMAIN Covers : p \in Nat \ {0} /\ Covers[p] \subseteq Inputs

\* Zero is a rule without a pattern.
Bare == 0
Patterns == {Bare} \union DOMAIN Covers

Process == "process"
PermissionRuleScope == {"session", "project", "global", Process}
scope_rank(scope) == CASE scope = Process -> 0 [] scope = "session" -> 1
                       [] scope = "project" -> 2 [] OTHER -> 3

RuleKey == [tool : Tools, pattern : Patterns]
RememberedRule == [key : RuleKey, allow : BOOLEAN, scope : PermissionRuleScope, reason : BOOLEAN]
Address(rule) == [scope |-> rule.scope, key |-> rule.key]

-----------------------------------------------------------------------------
(* RuleStore: which rule answers. *)

\* A denial wins between overlapping patterns, then the order of the keys.
compare_pattern_candidates(left, right) ==
    \/ ~left.allow /\ right.allow
    \/ left.allow = right.allow /\ left.key.pattern <= right.key.pattern

InScope(rules, scope, tool) == {r \in rules : r.scope = scope /\ r.key.tool = tool}
Patterned(rules, input) == {r \in rules : r.key.pattern # Bare /\ input \in Covers[r.key.pattern]}
BareOf(rules) == {r \in rules : r.key.pattern = Bare}

\* The candidates of the first scope that has any; patterns before the bare rule.
Candidates(rules, tool, input) ==
    LET of(scope) == LET here == InScope(rules, scope, tool)
                     IN  IF Patterned(here, input) # {} THEN Patterned(here, input) ELSE BareOf(here)
        scopes == {s \in PermissionRuleScope : of(s) # {}}
    IN  IF scopes = {} THEN {}
        ELSE of(CHOOSE s \in scopes : \A o \in scopes : scope_rank(s) <= scope_rank(o))

matching_rule(rules, tool, input) ==
    LET found == Candidates(rules, tool, input)
    IN  IF found = {} THEN None
        ELSE CHOOSE r \in found : \A o \in found : compare_pattern_candidates(r, o)

\* RuleStore::add_rule, revoke_rule and clear_scope on the in-memory map.
add_rule(rules, rule) == {r \in rules : Address(r) # Address(rule)} \union {rule}
revoke_local(rules, address) == {r \in rules : Address(r) # address}
clear_local(rules, scope) == {r \in rules : r.scope # scope}

-----------------------------------------------------------------------------
(* What the stores share: contexts, and one rule for each address. *)

validate_scope(context, scope) == scope = "project" => context.project # None
validate_persisted_scope(context, scope) == validate_scope(context, scope) /\ scope # Process

\* Of two rows at one address a refusal wins, then one that says why.
compare_duplicate_rules(left, right) ==
    \/ ~left.allow /\ right.allow
    \/ left.allow = right.allow /\ (left.reason \/ ~right.reason)

canonicalize_permission_rules(rules) ==
    {r \in rules : \A o \in rules : Address(o) = Address(r) => compare_duplicate_rules(r, o)}

-----------------------------------------------------------------------------
(* Rows as rules.json and the volatile store keep them. *)

StoredRule(session, project, rule) == [session |-> session, project |-> project, rule |-> rule]

in_namespace(stored, context, scope) ==
    /\ stored.rule.scope = scope
    /\ CASE scope = Process -> FALSE
         [] scope = "session" -> stored.session = context.session
         [] scope = "project" -> context.project # None /\ stored.project = context.project
         [] OTHER -> TRUE

at_address(stored, context, address) ==
    in_namespace(stored, context, address.scope) /\ stored.rule.key = address.key

stored_rule(context, rule) ==
    StoredRule(context.session, IF rule.scope = "project" THEN context.project ELSE None, rule)

upsert_AnySession(rows, context, rule) ==
    {e \in rows : ~(e.session = context.session /\ Address(e.rule) = Address(rule))}
    \union {stored_rule(context, rule)}

upsert(rows, context, rule) ==
    {e \in rows : ~at_address(e, context, Address(rule))} \union {stored_rule(context, rule)}

revoke(rows, context, address) == {e \in rows : ~at_address(e, context, address)}
clear_scope(rows, context, scope) == {e \in rows : ~in_namespace(e, context, scope)}
clear_rules(rows, context) == {e \in rows : e.session # context.session}
save_rule(rows, context, rule) == upsert(clear_scope(rows, context, "session"), context, rule)

Applicable(rows, context) ==
    canonicalize_permission_rules({e.rule : e \in {r \in rows : in_namespace(r, context, r.rule.scope)}})

-----------------------------------------------------------------------------
(* The same operations as the SQL of the SQLite store writes them. *)

delete_permission_address(rows, context, address) ==
    {e \in rows : ~(/\ Address(e.rule) = address
                    /\ CASE address.scope = "session" -> e.session = context.session
                         [] address.scope = "project" -> e.project = context.project
                         [] OTHER -> TRUE)}

clear_permission_namespace(rows, context, scope) ==
    {e \in rows : ~(/\ e.rule.scope = scope
                    /\ CASE scope = "session" -> e.session = context.session
                         [] scope = "project" -> e.project = context.project
                         [] OTHER -> TRUE)}

insert_permission_rule(rows, context, rule) == rows \union {stored_rule(context, rule)}

sqlite_load_applicable_rules(rows, context) ==
    canonicalize_permission_rules(
        {e.rule : e \in {r \in rows :
            \/ r.rule.scope = "session" /\ r.session = context.session
            \/ r.rule.scope = "project" /\ context.project # None /\ r.project = context.project
            \/ r.rule.scope = "global"}})

----------------------------------------------------------------------------
(***************************************************************************)
(* A tool call that needs approval.  SessionToolAuthorizer asks the host's *)
(* authorizer, then the remembered rules, then the user: it leaves a       *)
(* request with a generation of its own in PendingPermissionStore and waits*)
(* for resolve_permission, which host threads call at any time, with any   *)
(* request id ever announced, while the waiting call may be dropped.       *)
(* An answer can be remembered, which edits rows that the sessions of      *)
(* several processes share through one of the three stores.                *)
(***************************************************************************)

CONSTANTS Sessions,      \* live sessions, each in a process of its own
          Hosts,         \* host threads
          ProjectOf,     \* each session's project id, None where it has none
          HostRules,     \* the rules the hosts edit
          HostDecisions, \* the answers they give
          Inodes,        \* file identities the file system hands out
          MaxRequests,   \* bound: calls that ask for authorization
          MaxChanges,    \* bound: edits of the rules the hosts make directly
          MaxFailures    \* bound: store operations that fail

ASSUME PermissionAssumption ==
    /\ MaxRequests \in Nat /\ MaxChanges \in Nat /\ MaxFailures \in Nat
    /\ 0 \notin Inodes
    /\ DOMAIN ProjectOf = Sessions
    /\ HostRules \subseteq {r \in RememberedRule : r.allow => ~r.reason}
    /\ HostDecisions \subseteq [allow : BOOLEAN, remember : {None} \union PermissionRuleScope]

VARIABLES backend,       \* the RuntimeStore in use
          disk,          \* rules.json: its identity and rows; or the rows of the database
          cache,         \* RulesState.cached of each session's store
          lock,          \* who holds rules.lock
          process_rules, \* the rules of each live session
          req,           \* the authorize calls, by generation
          pending,       \* PendingPermissionStore: the requests a resolver can claim
          host,          \* what each host thread is doing
          kept,          \* the requests whose rule was remembered
          changes, failures

permissionVars == <<backend, disk, cache, lock, process_rules, req, pending, host, kept, changes, failures>>

Requests == 1..MaxRequests
Context(s) == [session |-> s, project |-> ProjectOf[s]]
AnswerRule(tool, decision) ==
    [key |-> [tool |-> tool, pattern |-> Bare], allow |-> decision.allow,
     scope |-> decision.remember, reason |-> ~decision.allow]
DurableRules == {r \in HostRules \union {AnswerRule(t, d) : t \in Tools, d \in HostDecisions} : r.scope \in PermissionRuleScope \ {Process}}

NoRequest == [session |-> None, tool |-> None, state |-> "unused", active |-> FALSE,
              holder |-> None, answer |-> None, result |-> None]
IdleHost == [pc |-> "idle", req |-> 0, decision |-> None, edit |-> None, snapshot |-> {}]

PermissionInit ==
    /\ backend \in {"file", "sqlite", "volatile"}
    /\ disk \in [ino : IF backend = "file" THEN {0, 1} ELSE {0}, rows : {{}}]
    /\ cache = [s \in Sessions |-> None]
    /\ lock = None
    /\ process_rules = [s \in Sessions |-> {}]
    /\ req = [r \in Requests |-> NoRequest]
    /\ pending = {}
    /\ host = [h \in Hosts |-> IdleHost]
    /\ kept = {}
    /\ changes = 0 /\ failures = 0

-----------------------------------------------------------------------------
(* The stores. *)

\* The rules a session's load returns, and what the load leaves cached: the
\* parsed rows are reused while the file still has the identity they were
\* read under.
read_rules_cached(s) ==
    IF cache[s] # None /\ cache[s].ino = disk.ino THEN cache[s] ELSE disk

load_applicable_rules(s) ==
    CASE backend = "file" -> Applicable(read_rules_cached(s).rows, Context(s))
      [] backend = "sqlite" -> sqlite_load_applicable_rules(disk.rows, Context(s))
      [] OTHER -> Applicable(disk.rows, Context(s))

AfterLoad(s) == IF backend = "file" THEN [cache EXCEPT ![s] = read_rules_cached(s)] ELSE cache

\* One edit of the rows by the file and the volatile store ...
Edit(rows, edit) ==
    LET context == Context(edit.session) IN
    CASE edit.kind = "upsert" -> upsert(rows, context, edit.rule)
      [] edit.kind = "revoke" -> revoke(rows, context, Address(edit.rule))
      [] edit.kind = "clear_scope" -> clear_scope(rows, context, edit.rule.scope)
      [] edit.kind = "save" -> save_rule(rows, context, edit.rule)
      [] edit.kind = "clear_rules" -> clear_rules(rows, context)

\* ... and by one immediate transaction of the SQLite store.
SqliteEdit(rows, edit) ==
    LET context == Context(edit.session)
        removed == delete_permission_address(rows, context, Address(edit.rule))
    IN  CASE edit.kind = "upsert" -> insert_permission_rule(removed, context, edit.rule)
          [] edit.kind = "revoke" -> removed
          [] edit.kind = "clear_scope" -> clear_permission_namespace(rows, context, edit.rule.scope)
          [] edit.kind = "save" ->
                 insert_permission_rule(
                     delete_permission_address(clear_permission_namespace(rows, context, "session"),
                                               context, Address(edit.rule)), context, edit.rule)
          [] edit.kind = "clear_rules" -> clear_rules(rows, context)

\* Revoking and clearing write only when a row went away.
Changed(rows, edit) ==
    edit.kind \in {"revoke", "clear_scope"} => Edit(rows, edit) # rows

\* An open handle in a cache keeps its file's identity from being reused.
FreeInodes == Inodes \ ({disk.ino} \union {cache[s].ino : s \in {t \in Sessions : cache[t] # None}})

-----------------------------------------------------------------------------
(* authorize *)

NextRequest == {r \in Requests : req[r].state = "unused" /\ \A o \in Requests : o < r => req[o].state # "unused"}

\* A session's loads wait while its own store is inside a mutation.
StoreFree(s) == lock # None => host[lock].edit.session # s

\* The process's own rules first, then the durable ones.
SessionRule(s, tool, input) ==
    LET own == matching_rule(process_rules[s], tool, input)
    IN  IF own # None THEN own
        ELSE matching_rule({r \in load_applicable_rules(s) : r.scope # Process}, tool, input)

\* The host's authorizer allowed or refused, or the store failed: no rule and
\* no user is asked.
Decided(s, tool, outcome) ==
    \E r \in NextRequest :
        /\ req' = [req EXCEPT ![r] = [NoRequest EXCEPT !.session = s, !.tool = tool, !.state = "done", !.result = outcome]]
        /\ UNCHANGED <<backend, disk, cache, lock, process_rules, pending, host, kept, changes, failures>>

AnsweredByRule(s, tool, input) ==
    /\ StoreFree(s)
    /\ SessionRule(s, tool, input) # None
    /\ \E r \in NextRequest :
        req' = [req EXCEPT ![r] = [NoRequest EXCEPT !.session = s, !.tool = tool, !.state = "done",
                   !.result = IF SessionRule(s, tool, input).allow THEN "allow" ELSE "deny"]]
    /\ cache' = IF matching_rule(process_rules[s], tool, input) = None THEN AfterLoad(s) ELSE cache
    /\ UNCHANGED <<backend, disk, lock, process_rules, pending, host, kept, changes, failures>>

\* insert_unique, PermissionRequested, and the wait for an answer.
Asked(s, tool, input) ==
    /\ StoreFree(s)
    /\ SessionRule(s, tool, input) = None
    /\ \E r \in NextRequest :
        /\ req' = [req EXCEPT ![r] = [NoRequest EXCEPT !.session = s, !.tool = tool, !.state = "waiting", !.active = TRUE]]
        /\ pending' = pending \union {r}
    /\ cache' = AfterLoad(s)
    /\ UNCHANGED <<backend, disk, lock, process_rules, host, kept, changes, failures>>

authorize(s, tool, input) ==
    \/ \E outcome \in {"allow", "deny", "error"} : Decided(s, tool, outcome)
    \/ AnsweredByRule(s, tool, input)
    \/ Asked(s, tool, input)

\* The decision arrives.
Receive(r) ==
    /\ req[r].state = "waiting" /\ req[r].answer # None
    /\ req' = [req EXCEPT ![r].state = "closed", ![r].result = IF req[r].answer.allow THEN "allow" ELSE "deny"]
    /\ UNCHANGED <<backend, disk, cache, lock, process_rules, pending, host, kept, changes, failures>>

\* A timeout or a cancelled run drops the waiting future: the receiver goes
\* first, its guard after it.
DropWaiter(r) ==
    /\ req[r].state = "waiting" /\ req[r].answer = None
    /\ req' = [req EXCEPT ![r].state = "closed", ![r].result = "dropped"]
    /\ UNCHANGED <<backend, disk, cache, lock, process_rules, pending, host, kept, changes, failures>>

\* PendingPermissionWaitGuard::drop
DropGuard(r) ==
    /\ req[r].state = "closed" /\ req[r].holder = None
    /\ req' = [req EXCEPT ![r].state = "done", ![r].active = FALSE]
    /\ pending' = IF req[r].active THEN pending \ {r} ELSE pending
    /\ UNCHANGED <<backend, disk, cache, lock, process_rules, host, kept, changes, failures>>

-----------------------------------------------------------------------------
(* resolve_permission *)

\* A decision whose scope the session cannot remember, or an id that is not
\* pending, is refused before anything changes.
Claim(h, r, decision) ==
    /\ host[h].pc = "idle"
    /\ r \in pending
    /\ decision.remember # None => validate_scope(Context(req[r].session), decision.remember)
    /\ pending' = pending \ {r}
    /\ host' = [host EXCEPT ![h] = [IdleHost EXCEPT !.pc = "claimed", !.req = r, !.decision = decision]]
    /\ UNCHANGED <<backend, disk, cache, lock, process_rules, req, kept, changes, failures>>

\* The waiter left between the claim and the lifecycle lock.
ClaimIsStale(h) ==
    LET r == host[h].req IN
    /\ host[h].pc = "claimed" /\ req[r].holder = None
    /\ ~req[r].active \/ req[r].state # "waiting"
    /\ req' = [req EXCEPT ![r].active = FALSE]
    /\ host' = [host EXCEPT ![h] = IdleHost]
    /\ UNCHANGED <<backend, disk, cache, lock, process_rules, pending, kept, changes, failures>>

\* The lifecycle lock is held from here to the end of resolve_permission.
Remember(h) ==
    LET r == host[h].req
        decision == host[h].decision
        s == req[r].session
        rule == AnswerRule(req[r].tool, decision)
    IN
    /\ host[h].pc = "claimed" /\ req[r].holder = None
    /\ req[r].active /\ req[r].state = "waiting"
    /\ req' = [req EXCEPT ![r].holder = h]
    /\ \/ /\ decision.remember = None
          /\ host' = [host EXCEPT ![h].pc = "answer"]
          /\ UNCHANGED <<process_rules, kept>>
       \/ /\ decision.remember = Process
          /\ process_rules' = [process_rules EXCEPT ![s] = add_rule(@, rule)]
          /\ kept' = kept \union {r}
          /\ host' = [host EXCEPT ![h].pc = "answer"]
       \/ /\ decision.remember \notin {None, Process}
          /\ host' = [host EXCEPT ![h].pc = "store", ![h].edit = [kind |-> "upsert", session |-> s, rule |-> rule]]
          /\ UNCHANGED <<process_rules, kept>>
    /\ UNCHANGED <<backend, disk, cache, lock, pending, changes, failures>>

\* PermissionResolved is sent and the decision handed to the waiter, who may
\* have gone since.
Answer(h) ==
    LET r == host[h].req IN
    /\ host[h].pc = "answer"
    /\ req' = [req EXCEPT ![r].holder = None,
                          ![r].answer = IF req[r].state = "waiting" THEN host[h].decision ELSE None,
                          ![r].active = IF req[r].state = "waiting" THEN FALSE ELSE @]
    /\ host' = [host EXCEPT ![h] = IdleHost]
    /\ UNCHANGED <<backend, disk, cache, lock, process_rules, pending, kept, changes, failures>>

-----------------------------------------------------------------------------
(* SessionPermissionHandle's own edits, and every edit's way to the store. *)

\* remember_rule, revoke_rule, clear_scope and the bulk methods of the store.
ChangeRules(h, s, kind, rule) ==
    /\ host[h].pc = "idle" /\ changes < MaxChanges
    /\ kind = "save" => rule.scope = "session"
    /\ validate_persisted_scope(Context(s), rule.scope)
    /\ changes' = changes + 1
    /\ host' = [host EXCEPT ![h] = [IdleHost EXCEPT !.pc = "store", !.edit = [kind |-> kind, session |-> s, rule |-> rule]]]
    /\ UNCHANGED <<backend, disk, cache, lock, process_rules, req, pending, kept, failures>>

ChangeProcessRules(h, s, kind, rule) ==
    /\ host[h].pc = "idle" /\ changes < MaxChanges
    /\ rule.scope = Process
    /\ changes' = changes + 1
    /\ process_rules' = [process_rules EXCEPT ![s] =
           CASE kind = "upsert" -> add_rule(@, rule)
             [] kind = "revoke" -> revoke_local(@, Address(rule))
             [] kind = "clear_scope" -> clear_local(@, Process)]
    /\ UNCHANGED <<backend, disk, cache, lock, req, pending, host, kept, failures>>

\* What becomes of the host when the edit is stored, and when it failed: a
\* failure puts a claimed request back and leaves the waiter waiting.
Stored(h) ==
    /\ host' = [host EXCEPT ![h] = IF @.req = 0 THEN IdleHost ELSE [@ EXCEPT !.pc = "answer", !.edit = None, !.snapshot = {}]]
    /\ kept' = IF host[h].req = 0 THEN kept ELSE kept \union {host[h].req}
    /\ UNCHANGED <<req, pending>>

NotStored_Answered(h) ==
    /\ host' = [host EXCEPT ![h] = IF @.req = 0 THEN IdleHost ELSE [@ EXCEPT !.pc = "answer", !.edit = None, !.snapshot = {}]]
    /\ UNCHANGED <<pending, kept, req>>

NotStored(h) ==
    /\ host' = [host EXCEPT ![h] = IdleHost]
    /\ IF host[h].req = 0 THEN UNCHANGED <<req, pending>>
       ELSE /\ req' = [req EXCEPT ![host[h].req].holder = None]
            /\ pending' = pending \union {host[h].req}
    /\ UNCHANGED kept

\* mutate_rules: both locks, and only then the rows as they are on disk.
LockRules(h) ==
    /\ backend = "file" /\ host[h].pc = "store"
    /\ lock = None
    /\ lock' = h
    /\ host' = [host EXCEPT ![h].pc = "write", ![h].snapshot = disk.rows]
    /\ UNCHANGED <<backend, disk, cache, process_rules, req, pending, kept, changes, failures>>

WriteRules(h) ==
    LET s == host[h].edit.session
        rows == Edit(host[h].snapshot, host[h].edit)
    IN
    /\ host[h].pc = "write"
    /\ IF Changed(host[h].snapshot, host[h].edit)
       THEN \E ino \in FreeInodes :
                /\ disk' = [ino |-> ino, rows |-> rows]
                /\ cache' = [cache EXCEPT ![s] = None]
       ELSE /\ cache' = [cache EXCEPT ![s] = [ino |-> disk.ino, rows |-> host[h].snapshot]]
            /\ UNCHANGED disk
    /\ lock' = None
    /\ Stored(h)
    /\ UNCHANGED <<backend, process_rules, changes, failures>>

\* One transaction, or one critical section of the volatile store's mutex.
Transact(h) ==
    LET edit == host[h].edit IN
    /\ backend # "file" /\ host[h].pc = "store"
    /\ disk' = [disk EXCEPT !.rows = IF backend = "sqlite" THEN SqliteEdit(@, edit) ELSE Edit(@, edit)]
    /\ Stored(h)
    /\ UNCHANGED <<backend, cache, lock, process_rules, changes, failures>>

\* The lock, the read, the parse, the write or the commit fails.
StoreFails(h) ==
    /\ backend # "volatile" /\ host[h].pc \in {"store", "write"}
    /\ failures < MaxFailures
    /\ failures' = failures + 1
    /\ lock' = IF lock = h THEN None ELSE lock
    /\ NotStored(h)
    /\ UNCHANGED <<backend, disk, cache, process_rules, changes>>

-----------------------------------------------------------------------------
PermissionNext ==
    \/ \E s \in Sessions, tool \in Tools, input \in Inputs : authorize(s, tool, input)
    \/ \E r \in Requests : Receive(r) \/ DropWaiter(r) \/ DropGuard(r)
    \/ \E h \in Hosts :
        \/ \E r \in Requests, decision \in HostDecisions : Claim(h, r, decision)
        \/ ClaimIsStale(h) \/ Remember(h) \/ Answer(h)
        \/ \E s \in Sessions, rule \in HostRules, kind \in {"upsert", "revoke", "clear_scope", "save", "clear_rules"} :
               ChangeRules(h, s, kind, rule)
        \/ \E s \in Sessions, rule \in HostRules, kind \in {"upsert", "revoke", "clear_scope"} :
               ChangeProcessRules(h, s, kind, rule)
        \/ LockRules(h) \/ WriteRules(h) \/ Transact(h) \/ StoreFails(h)

-----------------------------------------------------------------------------
(* Properties. *)

\* Every request that can be claimed has a guard that will still remove it,
\* and every call that waits for an answer can still be given one: its
\* request is in PendingPermissionStore or in the hands of one resolver
\* (claim, restore and the guard's drop, permission.rs, and the failed
\* remember in resolve_permission).
PendingIsLive ==
    /\ \A r \in pending : req[r].active /\ req[r].state \in {"waiting", "closed"}
    /\ \A r \in Requests :
        req[r].state = "waiting" /\ req[r].answer = None =>
            \/ r \in pending
            \/ Cardinality({h \in Hosts : host[h].req = r}) = 1

\* A call is handed an answer that was to be remembered only once the rule is
\* stored: resolve_permission remembers before it sends.
RememberedFirst ==
    \A r \in Requests :
        req[r].answer # None /\ req[r].answer.remember # None => r \in kept

\* Rows a store's cache pairs with the identity rules.json has now are the
\* rows of the file: a load never answers from a file that was replaced.
CacheIsCurrent ==
    \A s \in Sessions : cache[s] # None /\ cache[s].ino = disk.ino => cache[s].rows = disk.rows

\* The two-step lookup of SessionPermissionHandle::matching_rule finds what
\* one lookup in the listed remembered_rules of the session finds.
LookupAgrees ==
    \A s \in Sessions, tool \in Tools, input \in Inputs :
        SessionRule(s, tool, input) =
            matching_rule(load_applicable_rules(s) \union process_rules[s], tool, input)

\* A stored row, as the map of rules has it.
RuleOf(row) ==
    [namespace |-> [scope |-> row.rule.scope,
                    owner |-> CASE row.rule.scope = "session" -> row.session
                                [] row.rule.scope = "project" -> row.project
                                [] OTHER -> None],
     key |-> row.rule.key, allow |-> row.rule.allow, reason |-> row.rule.reason, by |-> row.session]

Contract == INSTANCE RuleMap WITH
    Contexts <- {Context(s) : s \in Sessions},
    Rules <- DurableRules,
    rules <- {RuleOf(row) : row \in disk.rows}

\* Whichever store is used, and whoever else uses it, each edit of the rules
\* takes effect as a whole on the rules all sessions share, and none is lost
\* (mutate_rules under rules.lock, the immediate transactions of the SQLite
\* store, the mutex of the volatile one).
ImplementsRuleMap == Contract!Spec

----------------------------------------------------------------------------
(***************************************************************************)
(* Session wraps an agent: it opens and closes turns, forwards the agent's *)
(* events onto the session stream while a turn or a compaction is running, *)
(* and detaches subagents.  A turn may fail with calls queued and never    *)
(* answered, and be resumed later; its future may be dropped.              *)
(***************************************************************************)

CONSTANTS Calls,        \* tool call ids the model announces
          Subagents,    \* subagents a host detaches
          MaxTurns,     \* bound: turns begun
          MaxEvents     \* bound: events on the stream

VARIABLES status, turn_count,  \* SessionMetadata
          next_seq,            \* Session.next_seq
          tap,                 \* the forwarder's own counter, NoTap when none is installed
          stream,              \* what event_tx carried, in order
          tool_names,          \* ToolNameIndex: the calls whose name is known
          call,                \* where the agent is with each call
          subagents,           \* the snapshot's subagents: id -> status
          task,                \* the detached tasks still running
          begun                \* turns begun

sessionVars == <<status, turn_count, next_seq, tap, stream, tool_names, call, subagents, task, begun>>

NoTap == MaxEvents + 1
Event(kind, id) == [kind |-> kind, id |-> id, named |-> TRUE]
Terminal == {"AssistantMessageCompleted", "Error"}
Room == Len(stream) + 2 <= MaxEvents

SessionInit ==
    /\ status = "Created" /\ turn_count = 0
    /\ next_seq = 0 /\ tap = NoTap /\ stream = <<>>
    /\ tool_names = {} /\ call = [c \in Calls |-> "new"]
    /\ subagents = [a \in Subagents |-> "none"] /\ task = {}
    /\ begun = 0

\* Session::emit: one event, one sequence number.
emit(kind, id) == stream' = Append(stream, Event(kind, id)) /\ next_seq' = next_seq + 1

-----------------------------------------------------------------------------
(* Turns. *)

\* begin_turn, with the UserMessage only a prompt sends before it.
begin_turn(prompted) ==
    /\ tap = NoTap /\ begun < MaxTurns /\ Room
    /\ begun' = begun + 1
    /\ IF prompted THEN emit("UserMessage", 0) ELSE UNCHANGED <<stream, next_seq>>
    /\ status' = "Active"
    /\ tap' = next_seq'
    /\ UNCHANGED <<turn_count, tool_names, call, subagents, task>>

append_turn == begin_turn(TRUE)
resume_turn == begun > 0 /\ begin_turn(FALSE)

\* finish_turn: the tap goes, its counter is taken over, one event ends the turn.
finish_turn(ok) ==
    /\ tap # NoTap /\ status = "Active" /\ Room
    /\ stream' = Append(stream, Event(IF ok THEN "AssistantMessageCompleted" ELSE "Error", 0))
    /\ next_seq' = tap + 1
    /\ tap' = NoTap
    /\ status' = IF ok THEN "Idle" ELSE "Failed"
    /\ turn_count' = IF ok THEN turn_count + 1 ELSE turn_count
    /\ UNCHANGED <<tool_names, call, subagents, task, begun>>

\* The host drops the turn's future: the guard unregisters the tap, nothing else runs.
DropTurn ==
    /\ tap # NoTap
    /\ tap' = NoTap
    /\ UNCHANGED <<status, turn_count, next_seq, stream, tool_names, call, subagents, task, begun>>

-----------------------------------------------------------------------------
(* map_agent_event, through the tap. *)

Forward(events) ==
    /\ stream' = stream \o events
    /\ tap' = tap + Len(events)

Named(c) == [kind |-> "ToolCompleted", id |-> c, named |-> c \in tool_names]

\* Events the session layer passes on one for one, and those it silences.
PassedOn ==
    /\ tap # NoTap /\ status = "Active" /\ Room
    /\ Forward(<<Event("AssistantTokenDelta", 0)>>)
    /\ UNCHANGED <<status, turn_count, next_seq, tool_names, call, subagents, task, begun>>

ToolUseReady(c) ==
    /\ tap # NoTap /\ status = "Active" /\ Room
    /\ call[c] = "new"
    /\ call' = [call EXCEPT ![c] = "queued"]
    /\ tool_names' = tool_names \union {c}
    /\ Forward(<<Event("ToolQueued", c)>>)
    /\ UNCHANGED <<status, turn_count, next_seq, subagents, task, begun>>

ToolExecutionStarted(c) ==
    /\ tap # NoTap /\ status = "Active" /\ Room
    /\ call[c] = "queued"
    /\ call' = [call EXCEPT ![c] = "started"]
    /\ tool_names' = tool_names \union {c}
    /\ Forward(<<Event("ToolStarted", c)>>)
    /\ UNCHANGED <<status, turn_count, next_seq, subagents, task, begun>>

\* map_tool_result: the name is looked up and forgotten.
ToolExecutionFinished(c) ==
    /\ tap # NoTap /\ status = "Active" /\ Room
    /\ call[c] \in {"queued", "started"}
    /\ call' = [call EXCEPT ![c] = "finished"]
    /\ tool_names' = tool_names \ {c}
    /\ Forward(<<Named(c)>>)
    /\ UNCHANGED <<status, turn_count, next_seq, subagents, task, begun>>

\* A compaction, whether inside a turn or asked for by the host between two,
\* is two events on the stream.
map_compaction == <<Event("CompactionStarted", 0), Event("CompactionCompleted", 0)>>

ContextCompacted ==
    /\ tap # NoTap /\ status = "Active" /\ Room
    /\ Forward(map_compaction)
    /\ UNCHANGED <<status, turn_count, next_seq, tool_names, call, subagents, task, begun>>

\* compact_with_bounds: not a turn, only the forwarding.
compact(compacted) ==
    /\ tap = NoTap /\ Room
    /\ LET events == IF compacted THEN map_compaction ELSE <<>>
       IN  stream' = stream \o events /\ next_seq' = next_seq + Len(events)
    /\ UNCHANGED <<status, turn_count, tap, tool_names, call, subagents, task, begun>>

branch_from ==
    /\ tap = NoTap /\ Room
    /\ emit("Branched", 0)
    /\ UNCHANGED <<status, turn_count, tap, tool_names, call, subagents, task, begun>>

-----------------------------------------------------------------------------
(* Detached subagents, and the memory bridge: they write to the stream      *)
(* whether or not a turn is open, and take no sequence number.              *)

detach_subagent(a) ==
    /\ tap = NoTap /\ subagents[a] = "none"
    /\ subagents' = [subagents EXCEPT ![a] = "Running"]
    /\ task' = task \union {a}
    /\ UNCHANGED <<status, turn_count, next_seq, tap, stream, tool_names, call, begun>>

SubagentEnds(a, ok) ==
    /\ a \in task /\ Room
    /\ task' = task \ {a}
    /\ stream' = Append(stream, Event(IF ok THEN "TaskFinished" ELSE "TaskFailed", a))
    /\ UNCHANGED <<status, turn_count, next_seq, tap, tool_names, call, subagents, begun>>

\* SessionHookBridge::on_event
MemoryIngestFinished(success) ==
    /\ begun > 0 /\ Room
    /\ stream' = Append(stream, Event(IF success THEN "MemoryUpdated" ELSE "Notice", 0))
    /\ UNCHANGED <<status, turn_count, next_seq, tap, tool_names, call, subagents, task, begun>>

SessionNext ==
    \/ append_turn \/ resume_turn \/ DropTurn
    \/ \E ok \in BOOLEAN : finish_turn(ok) \/ compact(ok) \/ MemoryIngestFinished(ok)
    \/ PassedOn \/ ContextCompacted \/ branch_from
    \/ \E c \in Calls : ToolUseReady(c) \/ ToolExecutionStarted(c) \/ ToolExecutionFinished(c)
    \/ \E a \in Subagents : detach_subagent(a) \/ \E ok \in BOOLEAN : SubagentEnds(a, ok)

-----------------------------------------------------------------------------
\* A result names its tool whenever the stream carried the call before it,
\* also when the result comes in a later turn than the call, and the index
\* holds no call that was answered (ToolNameIndex lives as long as the
\* session).
ResultIsNamed ==
    /\ \A i \in DOMAIN stream :
        stream[i].kind = "ToolCompleted" =>
            /\ stream[i].named
            /\ \E j \in 1..(i - 1) : stream[j].kind = "ToolQueued" /\ stream[j].id = stream[i].id
    /\ \A c \in tool_names : call[c] # "finished"
=============================================================================
