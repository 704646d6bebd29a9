--------------------------- MODULE BoundedProcess ---------------------------
(***************************************************************************)
(* BoundedCommand::run: a program, the processes it starts, the two pipes  *)
(* they share, and the host task that waits for the exit and for the end   *)
(* of the output under one deadline and two graces.                        *)
(*                                                                         *)
(* Time is the order of events: a timer that is set may fire at any later  *)
(* step.  What a stream holds is module OutputLimits'; here it is whether  *)
(* the reader has reached its end, which is when nobody holds the pipe.    *)
(* The descriptions are of unix: a process group killed by its leader's id.*)
(***************************************************************************)
EXTENDS Integers, FiniteSets

CONSTANTS Program,       \* the process that is spawned
          Descendants    \* processes it may start

ASSUME ProcessAssumption == Program \notin Descendants

Processes == {Program} \cup Descendants
Streams == {"stdout", "stderr"}

VARIABLES process,   \* each process: whether it lives, its pipes, its group
          host,      \* where run() is, its deadline, and its answer
          collected   \* the streams whose reader task has finished and been joined

processVars == <<process, host, collected>>

Places == {"new", "waiting", "killing", "draining", "killing_again", "draining_again", "done"}
Answers == {"none", "exited", "timed_out", "error", "dropped"}

ProcessTypeOK ==
    /\ process \in [Processes -> [alive : BOOLEAN, holds : SUBSET Streams, grouped : BOOLEAN]]
    /\ host \in [at : Places, timed_out : BOOLEAN, reaped : BOOLEAN, answer : Answers]
    /\ collected \subseteq Streams

ProcessInit ==
    /\ process = [p \in Processes |-> [alive |-> FALSE, holds |-> {}, grouped |-> FALSE]]
    /\ host = [at |-> "new", timed_out |-> FALSE, reaped |-> FALSE, answer |-> "none"]
    /\ collected = {}

Living == {p \in Processes : process[p].alive}
Group == {p \in Living : process[p].grouped}
AtEnd(stream) == \A p \in Living : stream \notin process[p].holds

Dead == [alive |-> FALSE, holds |-> {}, grouped |-> FALSE]

-----------------------------------------------------------------------------
(* What the program and its descendants do (the operating system's).       *)

\* A descendant inherits the pipes and the group of the one that starts it.
Fork(p, q) ==
    /\ p \in Living /\ q \in Descendants \ Living
    /\ host.at # "done"
    /\ process' = [process EXCEPT ![q] = process[p]]
    /\ UNCHANGED <<host, collected>>

ClosePipe(p, stream) ==
    /\ p \in Living /\ stream \in process[p].holds
    /\ process' = [process EXCEPT ![p].holds = @ \ {stream}]
    /\ UNCHANGED <<host, collected>>

\* A descendant that calls setsid itself.
LeaveGroup(p) ==
    /\ p \in Group \cap Descendants
    /\ process' = [process EXCEPT ![p].grouped = FALSE]
    /\ UNCHANGED <<host, collected>>

Exit(p) ==
    /\ p \in Living
    /\ process' = [process EXCEPT ![p] = Dead]
    /\ UNCHANGED <<host, collected>>

-----------------------------------------------------------------------------
(* run().                                                                  *)

\* spawn_with_stdio: a session of its own, both pipes; or it cannot start.
spawn ==
    /\ host.at = "new"
    /\ \/ /\ process' = [process EXCEPT ![Program] =
                            [alive |-> TRUE, holds |-> Streams, grouped |-> TRUE]]
          /\ host' = [host EXCEPT !.at = "waiting"]
       \/ host' = [host EXCEPT !.at = "done", !.answer = "error"] /\ UNCHANGED process
    /\ UNCHANGED collected

\* child.wait() answers before the deadline.
Waited ==
    /\ host.at = "waiting" /\ Program \notin Living
    /\ host' = [host EXCEPT !.at = "draining", !.reaped = TRUE]
    /\ UNCHANGED <<process, collected>>

\* The deadline passes first.
Deadline ==
    /\ host.at = "waiting"
    /\ host' = [host EXCEPT !.at = "killing", !.timed_out = TRUE]
    /\ UNCHANGED <<process, collected>>

\* kill_entire_process_tree that asks the child for its id only: one that was
\* waited for has none.
kill_tree_and_reap_LiveOnly ==
    /\ host.at \in {"killing", "killing_again"}
    /\ process' = [p \in Processes |-> IF p \in Group /\ ~host.reaped THEN Dead ELSE process[p]]
    /\ host' = [host EXCEPT !.at = IF @ = "killing" THEN "draining" ELSE "draining_again",
                            !.reaped = TRUE]
    /\ UNCHANGED collected

\* kill_tree_and_reap: the group recorded at spawn, the leader gone or not.
kill_tree_and_reap ==
    /\ host.at \in {"killing", "killing_again"}
    /\ process' = [p \in Processes |-> IF p \in Group THEN Dead ELSE process[p]]
    /\ host' = [host EXCEPT !.at = IF @ = "killing" THEN "draining" ELSE "draining_again",
                            !.reaped = TRUE]
    /\ UNCHANGED collected

\* The wait, the signal or a reader fails: so does run(), and dropping the child
\* ends the program.
SupervisionFails ==
    /\ host.at \notin {"new", "done"}
    /\ host' = [host EXCEPT !.at = "done", !.answer = "error"]
    /\ process' = [process EXCEPT ![Program] = Dead]
    /\ UNCHANGED collected

\* A reader task reaches the end of its stream, and drained_by joins it; stderr
\* is joined after stdout, or when the deadline has passed for stdout.
drained_by(stream) ==
    /\ host.at \in {"draining", "draining_again"}
    /\ stream \notin collected /\ AtEnd(stream)
    /\ collected' = collected \cup {stream}
    /\ UNCHANGED <<process, host>>

\* The drain's deadline: the tree is killed (again), or there is no answer.
DrainDeadline ==
    /\ host.at \in {"draining", "draining_again"} /\ collected # Streams
    /\ host' = IF host.at = "draining"
               THEN [host EXCEPT !.at = "killing_again", !.timed_out = TRUE]
               ELSE [host EXCEPT !.at = "done", !.answer = "error"]
    /\ UNCHANGED <<process, collected>>

\* into_captures.
Complete ==
    /\ host.at \in {"draining", "draining_again"} /\ collected = Streams
    /\ host' = [host EXCEPT !.at = "done",
                            !.answer = IF host.timed_out THEN "timed_out" ELSE "exited"]
    /\ UNCHANGED <<process, collected>>

\* The future of run() is dropped: kill_on_drop ends the program.
DropRun ==
    /\ host.at \notin {"new", "done"}
    /\ host' = [host EXCEPT !.at = "done", !.answer = "dropped"]
    /\ process' = [process EXCEPT ![Program] = Dead]
    /\ UNCHANGED collected

ProcessNext ==
    \/ \E p \in Processes : Exit(p) \/ LeaveGroup(p)
    \/ \E p, q \in Processes : Fork(p, q)
    \/ \E p \in Processes, stream \in Streams : ClosePipe(p, stream)
    \/ \E stream \in Streams : drained_by(stream)
    \/ spawn \/ Waited \/ Deadline \/ kill_tree_and_reap \/ SupervisionFails
    \/ DrainDeadline \/ Complete \/ DropRun

ProcessSpec == ProcessInit /\ [][ProcessNext]_processVars

-----------------------------------------------------------------------------
(* Properties.                                                             *)

\* An answer that carries output carries all of it: nobody is left who could
\* still write to either pipe, also when a descendant outlived the program.
\* An answer that says the budget ran out was given after the group was
\* killed, so what is left of it was started later or had left the group.
AnswersAreWhole ==
    /\ host.answer \in {"exited", "timed_out"} =>
          \A stream \in Streams : AtEnd(stream)
    /\ host.answer = "timed_out" => Group = {}
    /\ host.answer \in {"exited", "timed_out", "dropped"} => Program \notin Living

\* "a program that backgrounds work cannot leave it running".
NothingLeftRunning ==
    host.answer \in {"exited", "timed_out"} => Group = {}
=============================================================================
