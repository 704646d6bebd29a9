--------------------------- MODULE ProcessProofs ---------------------------
(***************************************************************************)
(* Proof that the answers of a bounded command are whole, for every set of *)
(* descendants.  The invariant adds where the program and its group can    *)
(* still be alive at each place of run(), and that a stream once read to   *)
(* its end stays at its end.                                               *)
(***************************************************************************)
EXTENDS BoundedProcess, TLAPS

\* The group is gone once run() has killed it and waits for the output.
Killed ==
    \/ host.at = "draining" /\ host.timed_out
    \/ host.at = "draining_again"
    \/ host.answer = "timed_out"

\* What run() knows of the processes at each of its places.
ProcessInv ==
    /\ ProcessTypeOK
    /\ host.at # "done" <=> host.answer = "none"
    /\ host.at = "new" => Living = {} /\ collected = {}
    /\ host.at \in {"new", "waiting"} => ~host.timed_out
    /\ Program \in Living => process[Program].grouped /\ host.at \notin {"draining", "killing_again", "draining_again"}
    /\ host.answer \in {"exited", "timed_out", "dropped"} => Program \notin Living
    /\ \A stream \in collected : AtEnd(stream)
    /\ host.answer \in {"exited", "timed_out"} => collected = Streams
    /\ Killed => Group = {}

\* Nothing has been spawned at first.
LEMMA ProcessInvInit == ProcessInit => ProcessInv
BY DEF ProcessInit, ProcessInv, ProcessTypeOK, Living, Group, AtEnd, Killed, Places, Answers, Streams

\* What a step of the program or of a descendant cannot do: open a pipe that was
\* closed, join a group that is gone, or bring the program back.
Inherits ==
    /\ process' \in [Processes -> [alive : BOOLEAN, holds : SUBSET Streams, grouped : BOOLEAN]]
    /\ Program \in Living' => Program \in Living /\ process'[Program].grouped = process[Program].grouped
    /\ \A q \in Living' : \E p \in Living :
          process'[q].holds \subseteq process[p].holds /\ (process'[q].grouped => process[p].grouped)
    /\ UNCHANGED <<host, collected>>

\* Exit, LeaveGroup, Fork and ClosePipe are such steps.
LEMMA ProcessesInherit ==
    ASSUME ProcessTypeOK,
           \/ \E p \in Processes : Exit(p) \/ LeaveGroup(p)
           \/ \E p, q \in Processes : Fork(p, q)
           \/ \E p \in Processes, stream \in Streams : ClosePipe(p, stream)
    PROVE  Inherits
<1> USE ProcessAssumption DEF ProcessTypeOK, Living, Inherits
<1>1. ASSUME NEW p \in Processes, Exit(p) PROVE Inherits
  BY <1>1 DEF Exit, Dead, Processes
<1>2. ASSUME NEW p \in Processes, LeaveGroup(p) PROVE Inherits
  BY <1>2 DEF LeaveGroup, Group, Processes
<1>3. ASSUME NEW p \in Processes, NEW q \in Processes, Fork(p, q) PROVE Inherits
  BY <1>3 DEF Fork, Processes
<1>4. ASSUME NEW p \in Processes, NEW stream \in Streams, ClosePipe(p, stream) PROVE Inherits
  BY <1>4 DEF ClosePipe, Processes
<1> QED
  BY <1>1, <1>2, <1>3, <1>4

\* So they keep the invariant.
LEMMA InheritKeepsInv == ASSUME ProcessInv, Inherits PROVE ProcessInv'
<1>1. Living = {} => Living' = {}
  BY DEF Inherits
<1>2. \A stream \in Streams : AtEnd(stream) => AtEnd(stream)'
  BY DEF Inherits, AtEnd
<1>3. Group = {} => Group' = {}
  BY DEF Inherits, Group
<1>4. collected \subseteq Streams
  BY DEF ProcessInv, ProcessTypeOK
<1> QED
  BY <1>1, <1>2, <1>3, <1>4 DEF ProcessInv, ProcessTypeOK, Inherits, Killed

\* The steps of run() that leave the processes alone: they go on only when the
\* program was waited for, or the streams have ended.
LEMMA WaitingStepInv ==
    ASSUME ProcessInv,
           \/ Waited \/ Deadline \/ DrainDeadline \/ Complete
           \/ \E stream \in Streams : drained_by(stream)
    PROVE  ProcessInv'
<1> USE DEF ProcessInv, ProcessTypeOK, Places, Answers, Killed
<1>0. process' = process
  BY DEF Waited, Deadline, DrainDeadline, Complete, drained_by
<1>1. Living' = Living /\ Group' = Group /\ \A stream \in Streams : AtEnd(stream)' <=> AtEnd(stream)
  BY <1>0 DEF Living, Group, AtEnd
<1>2. CASE Waited
  BY <1>0, <1>1, <1>2 DEF Waited
<1>3. CASE Deadline
  BY <1>0, <1>1, <1>3 DEF Deadline
<1>4. CASE DrainDeadline
  BY <1>0, <1>1, <1>4 DEF DrainDeadline
<1>5. CASE Complete
  BY <1>0, <1>1, <1>5 DEF Complete
<1>6. CASE \E stream \in Streams : drained_by(stream)
  <2>1. PICK stream \in Streams : drained_by(stream)
    BY <1>6
  <2>2. collected' = collected \cup {stream} /\ host' = host /\ AtEnd(stream)'
    BY <1>1, <2>1 DEF drained_by
  <2>3. host.at \in {"draining", "draining_again"}
    BY <2>1 DEF drained_by
  <2>4. \A s \in collected' : AtEnd(s)'
    BY <1>1, <2>2
  <2>5. ProcessTypeOK'
    BY <1>0, <2>2
  <2>6. host.answer = "none" /\ host.at # "new"
    BY <2>3
  <2> QED
    BY <1>0, <1>1, <2>2, <2>4, <2>5, <2>6
<1> QED
  BY <1>2, <1>3, <1>4, <1>5, <1>6

\* The steps of run() that start or kill processes: a kill takes the whole group
\* and with it the program; dropping the child takes the program.
LEMMA KillingStepInv ==
    ASSUME ProcessInv, spawn \/ kill_tree_and_reap \/ SupervisionFails \/ DropRun
    PROVE  ProcessInv'
<1> USE DEF ProcessInv, ProcessTypeOK, Places, Answers, Killed, Living, Group, AtEnd, Processes, Dead
<1>1. CASE spawn
  <2>1. /\ host.at = "new" /\ Living = {} /\ collected = {} /\ collected' = {}
        /\ host.answer = "none" /\ ~host.timed_out
    BY <1>1 DEF spawn
  <2>2. CASE /\ process' = [process EXCEPT ![Program] = [alive |-> TRUE, holds |-> Streams, grouped |-> TRUE]]
             /\ host' = [host EXCEPT !.at = "waiting"]
    <3>1. ProcessTypeOK' /\ process'[Program].grouped
      BY <2>1, <2>2
    <3>2. host'.at = "waiting" /\ host'.answer = "none" /\ ~host'.timed_out
      BY <2>1, <2>2
    <3> QED
      BY <2>1, <3>1, <3>2
  <2>3. CASE host' = [host EXCEPT !.at = "done", !.answer = "error"] /\ UNCHANGED process
    BY <2>1, <2>3
  <2> QED
    BY <1>1, <2>2, <2>3 DEF spawn
<1>2. CASE kill_tree_and_reap
  BY <1>2 DEF kill_tree_and_reap
<1>3. CASE SupervisionFails
  BY <1>3 DEF SupervisionFails
<1>4. CASE DropRun
  BY <1>4 DEF DropRun
<1> QED
  BY <1>1, <1>2, <1>3, <1>4

\* Every step keeps the invariant.
LEMMA ProcessInvStep == ProcessInv /\ [ProcessNext]_processVars => ProcessInv'
<1> SUFFICES ASSUME ProcessInv, [ProcessNext]_processVars PROVE ProcessInv'
  OBVIOUS
<1>1. CASE UNCHANGED processVars
  BY <1>1 DEF processVars, ProcessInv, ProcessTypeOK, Living, Group, AtEnd, Killed
<1>2. CASE ProcessNext
  <2>1. ProcessTypeOK
    BY DEF ProcessInv
  <2> QED
    BY <1>2, <2>1, ProcessesInherit, InheritKeepsInv, WaitingStepInv, KillingStepInv DEF ProcessNext
<1> QED
  BY <1>1, <1>2

\* BoundedCommand::run, for every set of descendants: an answer with output has
\* all of it, and one that says the budget ran out was given after the group was
\* killed.
THEOREM AnswersAreAlwaysWhole == ProcessSpec => []AnswersAreWhole
<1>1. ProcessInv => AnswersAreWhole
  BY DEF ProcessInv, AnswersAreWhole, Killed
<1> QED
  BY <1>1, ProcessInvInit, ProcessInvStep, PTL DEF ProcessSpec
=============================================================================
