------------------------------ MODULE MCAgent ------------------------------
(***************************************************************************)
(* A run for TLC, explored in two settings: the host queues two steers, or *)
(* a steer and a follow-up, and nothing else arrives, or letters and notes *)
(* arrive and the process may die.  Together they would be too many        *)
(* states.  The last run, which shows what the one before it left behind,  *)
(* ends in its first round.                                                *)
(***************************************************************************)
EXTENDS AgentRun

HostEntries == (Steers \union FollowUps) \intersect (given \union seen \union TagsIn(disk.transcript))

OneSetting ==
    /\ \/ HostEntries = {}
       \/ /\ HostEntries \intersect FollowUps = {} \/ Max(Steers) \notin HostEntries
          /\ \A l \in Letters : letters[l] = "unsent"
          /\ \A n \in Notes : notes[n] = "unsent"
          /\ crashes = 0
    /\ runs = MaxRuns => run.rounds < MaxRounds

\* What the host queued is never lost and never overtaken: see SteerOrder and
\* NoSteerLost (agent/steering.rs).
SteeringIsKept == SteerOrder /\ NoSteerLost

\* However a run ends, what the store delivered to it is acknowledged only once
\* it is stored and handed back otherwise, what its tools did is on record, and
\* what it did not finish is undone: see AckedIsDurable, NothingStranded,
\* ActedIsStored and RollbackRestores (agent/lifecycle.rs).
FailedRunsLeaveNothing ==
    TypeOK /\ AckedIsDurable /\ NothingStranded /\ ActedIsStored /\ RollbackRestores
=============================================================================
