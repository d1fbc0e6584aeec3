---------------------------- MODULE TaskExecution ----------------------------
(***************************************************************************)
(* run_tasks (lib.rs 760-812): runs the tasks of a list of task ids one at *)
(* a time, charging each against the weight left, and returns the ids it   *)
(* did not reach with the weight that remains.  Each loop iteration is one *)
(* step.                                                                   *)
(*                                                                         *)
(* The per-block pass that feeds run_tasks from the TaskQueue is commented *)
(* out of trigger_tasks (lib.rs 676-686); it is modelled from spec §4.3:   *)
(* once per block, after trigger_tasks' budget check, the queue is handed  *)
(* to run_tasks and what it returns becomes the queue of the next block.   *)
(***************************************************************************)
EXTENDS Naturals, Sequences, FiniteSets

CONSTANTS
    TaskIds,              \* task ids that may be queued
    Absent,               \* no entry in Tasks
    MaxQueue,             \* longest initial queue
    DbReadWeight,         \* T::DbWeight::get().reads(1)
    DbWriteWeight,        \* T::DbWeight::get().writes(1)
    EmitEventWeight,      \* WeightInfo::emit_event()
    NativeTransferWeight, \* WeightInfo::run_native_transfer_task()
    XcmpTaskWeight,       \* the 1_000_000 ref_time placeholder charged for XCMP
    MaxWeight             \* on_initialize's budget for trigger_tasks

ASSUME WeightsAssumption ==
    /\ {DbReadWeight, DbWriteWeight, EmitEventWeight, NativeTransferWeight,
        XcmpTaskWeight, MaxWeight, MaxQueue} \subseteq Nat
    /\ Absent \notin {"XCMP", "NativeTransfer"}

Actions == {"XCMP", "NativeTransfer"}

VARIABLES
    tasks,        \* Tasks: task id -> action kind, or Absent
    taskIds,      \* the task_ids argument of the current run_tasks call
    consumed,     \* consumed_task_index
    weightLeft,   \* weight_left
    stopped,      \* the loop has hit its break
    phase,        \* "idle" between blocks, "running" inside run_tasks
    queue,        \* the TaskQueue the per-block pass reads and writes
    spent,        \* weight the actions of this block's run really took
    budget,       \* the weight the current run_tasks call was given
    reported      \* the weight trigger_tasks, and so on_initialize, returns

vars == <<tasks, taskIds, consumed, weightLeft, stopped, phase, queue, spent, budget,
          reported>>

\* Mutant: plain subtraction where the code saturates.
UncheckedSub(a, b) == a - b

\* Weight.saturating_sub.
SaturatingSub(a, b) == IF a > b THEN a - b ELSE 0

\* The weight one more iteration needs: emit_event + one write + one read.
RunAnotherTaskWeight == EmitEventWeight + DbWriteWeight + DbReadWeight

\* The weight charged for a task id: emit_event when the task is missing,
\* else its action's weight plus the Tasks removal (write) and lookup (read).
ActionWeight(store, id) ==
    IF store[id] = Absent THEN EmitEventWeight
    ELSE (IF store[id] = "XCMP" THEN XcmpTaskWeight ELSE NativeTransferWeight)
         + DbWriteWeight + DbReadWeight

\* Mutant: split_off one place too early, re-queueing the last task run.
RemainingFromLastRun(ids, n) ==
    IF n = Len(ids) THEN <<>> ELSE SubSeq(ids, n, Len(ids))

\* The value run_tasks returns for the ids it did not run.
Remaining(ids, n) == IF n = Len(ids) THEN <<>> ELSE SubSeq(ids, n + 1, Len(ids))

\* Queues of at most MaxQueue ids, repetitions allowed (run_tasks takes any
\* Vec<TaskId>).
Queues == UNION {[1..n -> TaskIds] : n \in 0..MaxQueue}

Init ==
    /\ tasks \in [TaskIds -> Actions \cup {Absent}]
    /\ queue \in Queues
    /\ taskIds = <<>>
    /\ consumed = 0
    /\ weightLeft = 0
    /\ stopped = FALSE
    /\ phase = "idle"
    /\ spent = 0
    /\ budget = 0
    /\ reported = 0

\* Mutant: the budget is checked before a task runs instead of after, so a
\* task that costs more than the weight left is put back instead of run.
RunTaskCheckingBudgetFirst ==
    /\ phase = "running"
    /\ ~stopped
    /\ consumed < Len(taskIds)
    /\ LET id == taskIds[consumed + 1]
           w == ActionWeight(tasks, id)
       IN IF w > weightLeft
          THEN /\ stopped' = TRUE
               /\ UNCHANGED <<tasks, consumed, weightLeft, spent>>
          ELSE /\ consumed' = consumed + 1
               /\ tasks' = [tasks EXCEPT ![id] = Absent]
               /\ weightLeft' = weightLeft - w
               /\ spent' = spent + w
               /\ stopped' = (weightLeft - w < RunAnotherTaskWeight)
    /\ UNCHANGED <<taskIds, phase, queue, budget, reported>>

\* Mutant: Tasks::remove only in the native transfer arm, so an XCMP task
\* stays in the store after it ran.
RunTaskRemovingOnlyTransfers ==
    /\ phase = "running"
    /\ ~stopped
    /\ consumed < Len(taskIds)
    /\ LET id == taskIds[consumed + 1]
           w == ActionWeight(tasks, id)
       IN /\ consumed' = consumed + 1
          /\ tasks' = IF tasks[id] = "NativeTransfer"
                      THEN [tasks EXCEPT ![id] = Absent] ELSE tasks
          /\ weightLeft' = SaturatingSub(weightLeft, w)
          /\ spent' = spent + w
          /\ stopped' = (SaturatingSub(weightLeft, w) < RunAnotherTaskWeight)
    /\ UNCHANGED <<taskIds, phase, queue, budget, reported>>

\* Mutant: the break tests the weight left before this task was charged.
RunTaskBreakingOnOldWeight ==
    /\ phase = "running"
    /\ ~stopped
    /\ consumed < Len(taskIds)
    /\ LET id == taskIds[consumed + 1]
           w == ActionWeight(tasks, id)
       IN /\ consumed' = consumed + 1
          /\ tasks' = [tasks EXCEPT ![id] = Absent]
          /\ weightLeft' = SaturatingSub(weightLeft, w)
          /\ spent' = spent + w
          /\ stopped' = (weightLeft < RunAnotherTaskWeight)
    /\ UNCHANGED <<taskIds, phase, queue, budget, reported>>

\* One iteration of the loop of run_tasks: count the task as consumed, run
\* it if it exists (XCMP only charges its placeholder; a native transfer is
\* attempted and its success or failure only picks the event), remove it,
\* charge the weight, and break when the weight left cannot pay for another
\* iteration.
RunTask ==
    /\ phase = "running"
    /\ ~stopped
    /\ consumed < Len(taskIds)
    /\ LET id == taskIds[consumed + 1]
           w == ActionWeight(tasks, id)
       IN /\ consumed' = consumed + 1
          /\ tasks' = [tasks EXCEPT ![id] = Absent]
          /\ weightLeft' = SaturatingSub(weightLeft, w)
          /\ spent' = spent + w
          /\ stopped' = (SaturatingSub(weightLeft, w) < RunAnotherTaskWeight)
    /\ UNCHANGED <<taskIds, phase, queue, budget, reported>>

\* The end of run_tasks: the ids past consumed_task_index are returned and,
\* in the per-block pass, put back as the TaskQueue; trigger_tasks then
\* returns weight_left (lib.rs 687), which on_initialize returns (418).
ReturnRemaining ==
    /\ phase = "running"
    /\ stopped \/ consumed = Len(taskIds)
    /\ queue' = Remaining(taskIds, consumed)
    /\ phase' = "idle"
    /\ reported' = weightLeft
    /\ UNCHANGED <<tasks, taskIds, consumed, weightLeft, stopped, spent, budget>>

\* The per-block pass (spec §4.3): trigger_tasks returns at once when the
\* budget cannot pay for the time and deletion check (lib.rs 639-642);
\* otherwise the queue read and write are charged and a non-empty queue is
\* handed to run_tasks.
TriggerTasksPass ==
    /\ phase = "idle"
    /\ MaxWeight >= 2 * DbReadWeight
    /\ queue # <<>>
    /\ taskIds' = queue
    /\ consumed' = 0
    /\ weightLeft' = SaturatingSub(MaxWeight, DbReadWeight + DbWriteWeight)
    /\ budget' = SaturatingSub(MaxWeight, DbReadWeight + DbWriteWeight)
    /\ stopped' = FALSE
    /\ spent' = 0
    /\ phase' = "running"
    /\ UNCHANGED <<tasks, queue, reported>>

\* A block whose pass has nothing to run: trigger_tasks returns its budget,
\* less the queue read and write when it got past the first check.
IdleBlock ==
    /\ phase = "idle"
    /\ ~(MaxWeight >= 2 * DbReadWeight /\ queue # <<>>)
    /\ reported' = IF MaxWeight < 2 * DbReadWeight THEN MaxWeight
                   ELSE SaturatingSub(MaxWeight, DbReadWeight + DbWriteWeight)
    /\ UNCHANGED <<tasks, taskIds, consumed, weightLeft, stopped, phase, queue,
                   spent, budget>>

Next == RunTask \/ ReturnRemaining \/ TriggerTasksPass \/ IdleBlock

\* No fairness: the live on_initialize never starts the per-block pass, and
\* the valve can hold it off, so nothing in the code makes a pass happen.
Spec == Init /\ [][Next]_vars

------------------------------------------------------------------------------
(* Properties.                                                             *)

TypeOK ==
    /\ tasks \in [TaskIds -> Actions \cup {Absent}]
    /\ taskIds \in Seq(TaskIds) /\ queue \in Seq(TaskIds)
    /\ consumed \in 0..Len(taskIds)
    /\ weightLeft \in Nat /\ spent \in Nat /\ budget \in Nat /\ reported \in Nat
    /\ stopped \in BOOLEAN
    /\ phase \in {"idle", "running"}

\* When run_tasks has returned, the TaskQueue it leaves is exactly the ids
\* past the ones it consumed, in their order, and every id it consumed has
\* been removed from Tasks, whether its action succeeded or not
\* (split_off(consumed_task_index) and Tasks::remove in run_tasks).
RunTasksReturn ==
    phase = "idle" /\ taskIds # <<>> =>
        /\ queue = SubSeq(taskIds, consumed + 1, Len(taskIds))
        /\ \A i \in 1..consumed : tasks[taskIds[i]] = Absent

\* The queue as the engine's promise sees it: inside run_tasks, the ids
\* not consumed yet; between blocks, the TaskQueue.
PendingQueue ==
    IF phase = "running" THEN SubSeq(taskIds, consumed + 1, Len(taskIds)) ELSE queue

Abstract == INSTANCE QueueExecution WITH queue <- PendingQueue

\* run_tasks under the per-block pass implements the safety part of the FIFO
\* engine of spec §4.3: every step either runs the head of the pending queue
\* and removes its task, or changes neither.
FifoExecution == Abstract!SafetySpec

\* run_tasks never charges more than the weight it was given: the weight its
\* actions take stays within its budget (spec §4.3: the engine never
\* oversteps its budget).
WithinBudget == spent <= budget

\* The most one iteration of run_tasks can charge.
LargestActionWeight ==
    LET xcmp == XcmpTaskWeight + DbWriteWeight + DbReadWeight
        transfer == NativeTransferWeight + DbWriteWeight + DbReadWeight
        task == IF xcmp > transfer THEN xcmp ELSE transfer
    IN  IF EmitEventWeight > task THEN EmitEventWeight ELSE task

\* run_tasks oversteps its budget by one task at most: once the weight its
\* actions took passes the budget, weight_left has saturated at zero, the
\* loop has broken, and the excess is at most one action's weight (the
\* saturating_sub and the run_another_task_weight check of run_tasks).
BudgetOverrunStops ==
    spent > budget => stopped /\ spent <= budget + LargestActionWeight

\* Every pass of run_tasks gets past the head of the queue it was handed:
\* the budget is checked only after a task has run, so once the pass has
\* returned at least one id was consumed and the TaskQueue it put back is
\* shorter than the one it took (the loop of run_tasks and its break).
PassMakesProgress ==
    phase = "idle" /\ taskIds # <<>> =>
        consumed >= 1 /\ Len(queue) < Len(taskIds)
=============================================================================
