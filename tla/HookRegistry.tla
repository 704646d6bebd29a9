---------------------------- MODULE HookRegistry ----------------------------
(***************************************************************************)
(* The execution hooks a runtime carries (runtime/control/hooks.rs and     *)
(* execution_hooks.rs): three chains, "pre", "mixed" and "post", to which  *)
(* hosts add hooks while tool calls run, under exclusive guards or under   *)
(* keyed registrations shared by several holders, and the walk of a tool   *)
(* call over the chains.                                                   *)
(*                                                                         *)
(* Each chain has a lock.  A shared registration is counted by its strong  *)
(* references; the chain holds only a weak one, and the drop of the last   *)
(* reference removes the entry under the chain's lock.                     *)
(***************************************************************************)
EXTENDS Naturals, Sequences, SequencesExt

CONSTANTS HookThreads,   \* the host threads that add and drop registrations
          HookKeys,      \* keys of shared registrations
          HookValues,    \* the participants a key can be registered with
          Audiences,     \* sessions a hook may be confined to
          SharedChains,  \* the chains shared registrations are added to
          MaxHooks,      \* registrations in a behaviour
          MaxHandles,    \* handles on one shared registration
          Everyone       \* no audience, no key: a runtime-wide or exclusive entry

ASSUME MaxHooksAssumption == MaxHooks \in Nat /\ MaxHandles \in Nat \ {0}

Chains == {"pre", "mixed", "post"}

ASSUME SharedChainsAssumption == SharedChains \subseteq Chains

VARIABLES chain,     \* each chain's entries, in registration order
          held,      \* handles the host holds on each registration
          hlock,     \* each chain's lock: its owner
          hthread,   \* what each thread is doing
          hooks,     \* registrations made so far: their ids
          hcall       \* a tool call's walk

hookVars == <<chain, held, hlock, hthread, hooks, hcall>>

HookIds == 1..MaxHooks
Idle == [pc |-> "idle", id |-> 0, key |-> Everyone, audience |-> Everyone, value |-> Everyone]
NoCall == [pc |-> "idle", audience |-> Everyone, since |-> 0, snapshot |-> <<>>, i |-> 0,
           asked |-> {}, before |-> <<>>, ran |-> FALSE, after |-> <<>>, vetoed |-> FALSE,
           offered |-> {}, author |-> 0, replaced |-> {}]

Entry(id, key, audience, value) ==
    [id |-> id, key |-> key, audience |-> audience, value |-> value]

HookTypeOK ==
    /\ \A c \in Chains : \A k \in DOMAIN chain[c] :
          /\ chain[c][k].id \in 1..hooks
          /\ chain[c][k].key \in HookKeys \union {Everyone}
    /\ hlock \in [Chains -> HookThreads \union {Everyone}]
    /\ hooks \in 0..MaxHooks
    /\ held \in [HookIds -> 0..MaxHandles]

HookInit ==
    /\ chain = [c \in Chains |-> <<>>]
    /\ held = [i \in HookIds |-> 0]
    /\ hlock = [c \in Chains |-> Everyone]
    /\ hthread = [t \in HookThreads |-> Idle]
    /\ hooks = 0
    /\ hcall = NoCall

-----------------------------------------------------------------------------
(* The registry. *)

Free(c) == hlock[c] = Everyone
ChainOf(id) == CHOOSE c \in Chains : \E k \in DOMAIN chain[c] : chain[c][k].id = id
InChain(id) == \E c \in Chains : \E k \in DOMAIN chain[c] : chain[c][k].id = id

\* The strong references to a registration: the host's handles, and the one a
\* thread obtained by upgrading the entry's weak reference.
Strong(id) ==
    held[id] + (IF \E t \in HookThreads : hthread[t].pc = "upgraded" /\ hthread[t].id = id THEN 1 ELSE 0)

EntryOfKey(c, key) == SelectSeq(chain[c], LAMBDA e : e.key = key)
Without(c, id) == SelectSeq(chain[c], LAMBDA e : e.id # id)

\* LiveHookRegistry::detach, by registration id.
detach(c, id) == Without(c, id)

\* register_live: a unique entry, owned by its guard.
register_live(t, c, audience) ==
    /\ hthread[t].pc = "idle" /\ Free(c) /\ hooks < MaxHooks
    /\ hooks' = hooks + 1
    /\ chain' = [chain EXCEPT ![c] = Append(@, Entry(hooks + 1, Everyone, audience, Everyone))]
    /\ held' = [held EXCEPT ![hooks + 1] = 1]
    /\ UNCHANGED <<hlock, hthread, hcall>>

\* The runtime's three ways to register one, for everyone or for an audience.
register_pre_execution_hook(t, audience) == register_live(t, "pre", audience)
register_execution_hook(t, audience) == register_live(t, "mixed", audience)
register_post_execution_hook(t, audience) == register_live(t, "post", audience)

\* unregister, and the drop of a LiveHookRegistration, which does the same.
unregister(t, c, id) ==
    /\ hthread[t].pc = "idle" /\ Free(c)
    /\ held[id] > 0
    /\ \E k \in DOMAIN chain[c] : chain[c][k].id = id /\ chain[c][k].key = Everyone
    /\ chain' = [chain EXCEPT ![c] = detach(c, id)]
    /\ held' = [held EXCEPT ![id] = 0]
    /\ UNCHANGED <<hlock, hthread, hooks, hcall>>

\* register_shared, no live registration under the key: a stale entry, if there
\* is one, is replaced, and the new one's first handle is returned.
register_shared(t, c, key, audience, value) ==
    /\ hthread[t].pc = "idle" /\ Free(c) /\ hooks < MaxHooks
    /\ \A e \in Range(EntryOfKey(c, key)) : Strong(e.id) = 0
    /\ hooks' = hooks + 1
    /\ chain' = [chain EXCEPT ![c] =
                    Append(SelectSeq(@, LAMBDA e : e.key # key), Entry(hooks + 1, key, audience, value))]
    /\ held' = [held EXCEPT ![hooks + 1] = 1]
    /\ UNCHANGED <<hlock, hthread, hcall>>

\* register_shared, a live registration under the key: its weak reference is
\* upgraded, with the chain locked.
upgrade(t, c, key, audience, value) ==
    /\ hthread[t].pc = "idle" /\ Free(c)
    /\ \E e \in Range(EntryOfKey(c, key)) :
          /\ Strong(e.id) > 0 /\ held[e.id] < MaxHandles
          /\ hthread' = [hthread EXCEPT ![t] =
                [pc |-> "upgraded", id |-> e.id, key |-> key, audience |-> audience, value |-> value]]
    /\ hlock' = [hlock EXCEPT ![c] = t]
    /\ UNCHANGED <<chain, held, hooks, hcall>>

\* The same participant and audience: the caller becomes one more holder.
join(t, c) ==
    /\ hthread[t].pc = "upgraded" /\ hlock[c] = t
    /\ \E e \in Range(chain[c]) : /\ e.id = hthread[t].id
                                  /\ e.audience = hthread[t].audience /\ e.value = hthread[t].value
    /\ held' = [held EXCEPT ![hthread[t].id] = @ + 1]
    /\ hthread' = [hthread EXCEPT ![t] = Idle]
    /\ hlock' = [hlock EXCEPT ![c] = Everyone]
    /\ UNCHANGED <<chain, hooks, hcall>>

\* Anything else under the key is a conflict.  The upgraded reference goes out of
\* scope before the lock does: when the other holders are gone by now it is the
\* last one, and its drop asks for the lock this thread still holds.
conflict(t, c) ==
    /\ hthread[t].pc = "upgraded" /\ hlock[c] = t
    /\ \E e \in Range(chain[c]) : /\ e.id = hthread[t].id
                                  /\ e.audience # hthread[t].audience \/ e.value # hthread[t].value
    /\ IF held[hthread[t].id] = 0
       THEN /\ hthread' = [hthread EXCEPT ![t] = [@ EXCEPT !.pc = "dropping"]]
            /\ UNCHANGED hlock
       ELSE /\ hthread' = [hthread EXCEPT ![t] = Idle]
            /\ hlock' = [hlock EXCEPT ![c] = Everyone]
    /\ UNCHANGED <<chain, held, hooks, hcall>>

Shared(id) == \E c \in Chains : \E k \in DOMAIN chain[c] : chain[c][k].id = id /\ chain[c][k].key # Everyone

\* A SharedLiveHookRegistration handle is cloned, or dropped: the last drop goes
\* on to remove the entry.
clone_handle(id) ==
    /\ Shared(id) /\ held[id] > 0 /\ Strong(id) < MaxHandles
    /\ held' = [held EXCEPT ![id] = @ + 1]
    /\ UNCHANGED <<chain, hlock, hthread, hooks, hcall>>

drop_handle(t, id) ==
    /\ hthread[t].pc = "idle" /\ held[id] > 0 /\ Shared(id)
    /\ held' = [held EXCEPT ![id] = @ - 1]
    /\ hthread' = [hthread EXCEPT ![t] =
          IF Strong(id) = 1 THEN [Idle EXCEPT !.pc = "dropping", !.id = id] ELSE @]
    /\ UNCHANGED <<chain, hlock, hooks, hcall>>

\* The drop of the last reference.  A concurrent registration may have replaced
\* the stale entry: only the entry of this very registration is removed.
drop_entry(t) ==
    /\ hthread[t].pc = "dropping"
    /\ IF InChain(hthread[t].id)
       THEN LET c == ChainOf(hthread[t].id)
            IN  Free(c) /\ chain' = [chain EXCEPT ![c] = detach(c, hthread[t].id)]
       ELSE UNCHANGED chain
    /\ hthread' = [hthread EXCEPT ![t] = Idle]
    /\ UNCHANGED <<held, hlock, hooks, hcall>>

-----------------------------------------------------------------------------
(* A tool call's walk. *)

\* matching: runtime-wide entries and those of the call's own audience.
matching(c, audience) == SelectSeq(chain[c], LAMBDA e : e.audience \in {Everyone, audience})

Ids(seq) == [k \in DOMAIN seq |-> seq[k].id]
Walk(c, audience) == Ids(matching(c, audience))

Begin(audience) ==
    /\ hcall.pc = "idle" /\ Free("pre")
    /\ hcall' = [NoCall EXCEPT !.pc = "pre", !.audience = audience, !.since = hooks,
                              !.snapshot = Walk("pre", audience), !.i = 1]
    /\ UNCHANGED <<chain, held, hlock, hthread, hooks>>

\* What a hook's answer makes of an admission: a denial refuses the call; so does
\* an error in the serial lane, while in the parallel lane it fails the round.
Admitted(decision, pc) ==
    CASE decision = "allow" -> {pc} [] decision = "deny" -> {"refused"} [] decision = "error" -> {"refused", "failed"}

\* A hook of the legacy chain, or a participant's "before", lets the call through,
\* its input rewritten or not, or ends its admission.
RunPre(decision) ==
    /\ hcall.pc = "pre" /\ hcall.i <= Len(hcall.snapshot)
    /\ \E pc \in Admitted(decision, "pre") :
        hcall' = [hcall EXCEPT !.asked = @ \union {hcall.snapshot[hcall.i]}, !.i = @ + 1, !.pc = pc]
    /\ UNCHANGED <<chain, held, hlock, hthread, hooks>>

RunBefore(decision) ==
    /\ hcall.pc = "before" /\ hcall.i <= Len(hcall.snapshot)
    /\ \E pc \in Admitted(decision, "before") :
        hcall' = [hcall EXCEPT !.asked = @ \union {hcall.snapshot[hcall.i]},
                               !.before = Append(@, hcall.snapshot[hcall.i]), !.i = @ + 1, !.pc = pc]
    /\ UNCHANGED <<chain, held, hlock, hthread, hooks>>

\* The mixed chain is read once the legacy one has been walked; its snapshot
\* serves both seams.
EnterMixed ==
    /\ hcall.pc = "pre" /\ hcall.i > Len(hcall.snapshot) /\ Free("mixed")
    /\ hcall' = [hcall EXCEPT !.pc = "before", !.snapshot = Walk("mixed", hcall.audience), !.i = 1]
    /\ UNCHANGED <<chain, held, hlock, hthread, hooks>>

\* The schema check, the authorizer and the announcement of the start come
\* after the hooks.
RunTool ==
    /\ hcall.pc = "before" /\ hcall.i > Len(hcall.snapshot)
    /\ \/ hcall' = [hcall EXCEPT !.pc = "tool", !.ran = TRUE]
       \/ \E pc \in Admitted("error", "before") : hcall' = [hcall EXCEPT !.pc = pc]
    /\ UNCHANGED <<chain, held, hlock, hthread, hooks>>

ToolReturned ==
    /\ hcall.pc = "tool"
    /\ hcall' = [hcall EXCEPT !.pc = "after", !.i = 1]
    /\ UNCHANGED <<chain, held, hlock, hthread, hooks>>

\* A mixed participant sees the result: a denial ends the review, the legacy
\* chain included, an error the round.
Review(decision) ==
    /\ hcall.pc = "after" /\ hcall.i <= Len(hcall.snapshot)
    /\ hcall' = [hcall EXCEPT !.after = Append(@, hcall.snapshot[hcall.i]), !.i = @ + 1,
                              !.vetoed = decision = "deny",
                              !.pc = CASE decision = "deny" -> "done" [] decision = "error" -> "failed"
                                       [] decision = "allow" -> @]
    /\ UNCHANGED <<chain, held, hlock, hthread, hooks>>

\* review_result: a call that did not run brings no participants, so its result
\* goes to the legacy chain at once.  The chain is snapshotted now and walked from
\* the last registered.
Reviewed == hcall.pc = "refused" \/ (hcall.pc = "after" /\ hcall.i > Len(hcall.snapshot))
EnterPost_Forward ==
    /\ Reviewed /\ Free("post")
    /\ hcall' = [hcall EXCEPT !.pc = "post", !.snapshot = Walk("post", hcall.audience), !.i = 1]
    /\ UNCHANGED <<chain, held, hlock, hthread, hooks>>
EnterPost ==
    /\ Reviewed /\ Free("post")
    /\ hcall' = [hcall EXCEPT !.pc = "post", !.snapshot = Reverse(Walk("post", hcall.audience)), !.i = 1]
    /\ UNCHANGED <<chain, held, hlock, hthread, hooks>>

\* The error of a post hook fails the round; nothing is delivered.
Replace(decision) ==
    /\ hcall.pc = "post" /\ hcall.i <= Len(hcall.snapshot)
    /\ LET h == hcall.snapshot[hcall.i]
       IN  hcall' = [hcall EXCEPT !.i = @ + 1, !.offered = @ \union {h},
                                !.pc = IF decision = "error" THEN "failed" ELSE @,
                                !.author = IF decision = "replace" THEN h ELSE @,
                                !.replaced = IF decision = "replace" THEN @ \union {h} ELSE @]
    /\ UNCHANGED <<chain, held, hlock, hthread, hooks>>

Deliver ==
    /\ \/ hcall.pc = "post" /\ hcall.i > Len(hcall.snapshot)
       \/ hcall.pc = "done"
    /\ hcall' = [hcall EXCEPT !.pc = "delivered", !.snapshot = <<>>, !.i = 0]
    /\ UNCHANGED <<chain, held, hlock, hthread, hooks>>

HookCall ==
    \/ \E a \in Audiences \union {Everyone} : Begin(a)
    \/ \E d \in {"allow", "deny", "error"} : RunPre(d) \/ RunBefore(d) \/ Review(d)
    \/ \E d \in {"keep", "replace", "error"} : Replace(d)
    \/ EnterMixed \/ RunTool \/ ToolReturned \/ EnterPost \/ Deliver

HookHost ==
    \/ \E t \in HookThreads : \E a \in Audiences \union {Everyone} :
          \/ register_pre_execution_hook(t, a) \/ register_execution_hook(t, a) \/ register_post_execution_hook(t, a)
          \/ \E c \in SharedChains, k \in HookKeys, v \in HookValues :
                register_shared(t, c, k, a, v) \/ upgrade(t, c, k, a, v)
    \/ \E t \in HookThreads : \E c \in Chains :
          \/ join(t, c) \/ conflict(t, c)
          \/ \E id \in 1..hooks : unregister(t, c, id)
    \/ \E t \in HookThreads : drop_entry(t) \/ \E id \in 1..hooks : drop_handle(t, id)
    \/ \E id \in 1..hooks : clone_handle(id)

HookNext == HookHost \/ HookCall

HookSpec == HookInit /\ [][HookNext]_hookVars

-----------------------------------------------------------------------------
(* Properties. *)

\* register_shared, its handles and their drops, over every interleaving of
\* threads: a registration somebody holds is in its chain, once, and an entry
\* nobody holds is one whose last reference is being dropped.
RegistryFollowsHolders ==
    /\ \A id \in HookIds : held[id] > 0 => InChain(id)
    /\ \A c \in Chains : \A k \in DOMAIN chain[c] :
          LET e == chain[c][k]
          IN  /\ Strong(e.id) = 0 => \E t \in HookThreads : hthread[t].pc = "dropping" /\ hthread[t].id = e.id
              /\ e.key # Everyone => \A j \in DOMAIN chain[c] : chain[c][j].key = e.key => j = k

\* The entries of a chain that were there when the call began, and still are.
Standing(c) ==
    {e \in Range(chain[c]) : e.id <= hcall.since /\ e.audience \in {Everyone, hcall.audience}}

\* The hooks a call meets, whatever is registered and dropped while it runs.  A
\* tool runs only when every "before" hook its audience sees that was there when
\* the call began, and still is, has been asked; the participants that review the
\* result are those that admitted the call, in the same order, and review no
\* other; the post hooks are offered every result that is delivered, that of a
\* refused call included, unless a participant's review denied it; and of those
\* that replaced it the one registered first decides.
HooksHaveTheirSay ==
    /\ hcall.ran => \A c \in {"pre", "mixed"} : \A e \in Standing(c) : e.id \in hcall.asked
    /\ IsPrefix(hcall.after, hcall.before) /\ (hcall.after # <<>> => hcall.ran)
    /\ hcall.pc = "delivered" =>
          /\ hcall.vetoed \/ \A e \in Standing("post") : e.id \in hcall.offered
          /\ \A h \in hcall.replaced : hcall.author <= h

\* The comment on register_shared: no registration is destroyed while the
\* registry is locked by the thread that destroys it.
NeverDropsUnderLock ==
    \A t \in HookThreads : hthread[t].pc = "dropping" => \A c \in Chains : hlock[c] # t
=============================================================================
