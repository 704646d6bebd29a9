----------------------------- MODULE AgentStore -----------------------------
(***************************************************************************)
(* What the AgentStore trait promises the runtime about one agent: whoever *)
(* calls, an operation takes effect as a whole at one moment between its   *)
(* call and its return, or not at all, and one that returned Ok has taken  *)
(* effect.  A caller that dies, or is handed an error, may leave it done or*)
(* undone.  FileStore is shown to implement this.                          *)
(***************************************************************************)
CONSTANTS Clients,   \* processes with a store on the same root
          None       \* Option::None

VARIABLES stored,    \* what load_agent returns: the record and the memory
          calls      \* per client: the operation it is in, and how the last one ended

Idle(result) == [kind |-> "idle", record |-> 0, memory |-> None, done |-> FALSE, result |-> result]

\* What an operation makes of the stored agent.
Effect(call, s) ==
    CASE call.kind = "create" -> [record |-> call.record, memory |-> call.memory]
      [] call.kind = "delete" -> None
      [] call.kind = "memory" /\ s # None -> [s EXCEPT !.memory = call.memory]
      [] call.kind = "record" /\ s # None -> [s EXCEPT !.record = call.record]
      [] OTHER -> s

ContractInit == stored = None /\ calls = [c \in Clients |-> Idle("none")]

Begin(c) ==
    /\ calls[c].kind = "idle"
    /\ calls'[c].kind # "idle" /\ ~calls'[c].done
    /\ calls' = [calls EXCEPT ![c] = calls'[c]]
    /\ UNCHANGED stored

Commit(c) ==
    /\ calls[c].kind # "idle" /\ ~calls[c].done
    /\ stored' = Effect(calls[c], stored)
    /\ calls' = [calls EXCEPT ![c].done = TRUE]

Return(c) ==
    /\ calls[c].kind # "idle"
    /\ \/ calls[c].done /\ calls' = [calls EXCEPT ![c] = Idle("ok")]
       \/ calls' = [calls EXCEPT ![c] = Idle("error")]
    /\ UNCHANGED stored

\* The last write of an operation and its return in one step of the store.
CommitAndReturn(c) ==
    /\ calls[c].kind # "idle" /\ ~calls[c].done
    /\ stored' = Effect(calls[c], stored)
    /\ \E result \in {"ok", "error"} : calls' = [calls EXCEPT ![c] = Idle(result)]

ContractNext == \E c \in Clients : Begin(c) \/ Commit(c) \/ Return(c) \/ CommitAndReturn(c)

ContractSpec == ContractInit /\ [][ContractNext]_<<stored, calls>>
=============================================================================
