--------------------------- MODULE QueueExecution ---------------------------
(***************************************************************************)
(* What the scheduler engine promises (spec §4.3, §4.4): tasks run in the  *)
(* FIFO order of the TaskQueue, one at a time, each run removes its task   *)
(* from the Task Store whatever its outcome.  How many tasks fit in a      *)
(* block, and where the queue is cut, is not part of the promise.  The     *)
(* spec's "eventually run" is left out: the code never starts the pass.    *)
(***************************************************************************)
EXTENDS Naturals, Sequences

CONSTANTS TaskIds, Absent, MaxQueue

VARIABLES tasks, queue

Actions == {"XCMP", "NativeTransfer"}

Queues == UNION {[1..n -> TaskIds] : n \in 0..MaxQueue}

Init ==
    /\ tasks \in [TaskIds -> Actions \cup {Absent}]
    /\ queue \in Queues

\* The head of the queue is run and its task, if any, leaves the store.
RunHead ==
    /\ queue # <<>>
    /\ tasks' = [tasks EXCEPT ![Head(queue)] = Absent]
    /\ queue' = Tail(queue)

\* Every step runs the head or changes nothing.
SafetySpec == Init /\ [][RunHead]_<<tasks, queue>>
=============================================================================
