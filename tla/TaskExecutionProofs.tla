------------------------- MODULE TaskExecutionProofs -------------------------
(***************************************************************************)
(* Proofs about run_tasks under the per-block pass (TaskExecution), for   *)
(* every set of task ids, every queue bound and every choice of weights.  *)
(***************************************************************************)
EXTENDS TaskExecution, SequenceTheorems, TLAPS

\* Each weight constant is a natural number.
LEMMA WeightsNat ==
    /\ DbReadWeight \in Nat /\ DbWriteWeight \in Nat /\ EmitEventWeight \in Nat
    /\ NativeTransferWeight \in Nat /\ XcmpTaskWeight \in Nat /\ MaxWeight \in Nat
BY WeightsAssumption

\* The weight the pass hands to run_tasks is a natural number.
LEMMA PassBudgetNat == SaturatingSub(MaxWeight, DbReadWeight + DbWriteWeight) \in Nat
BY WeightsNat DEF SaturatingSub

\* The weight charged for any task id is a natural number.
LEMMA ActionWeightNat ==
    ASSUME NEW store, NEW id
    PROVE  ActionWeight(store, id) \in Nat
BY WeightsNat DEF ActionWeight

\* Saturating subtraction stays in Nat.
LEMMA SaturatingSubNat ==
    ASSUME NEW a \in Nat, NEW b \in Nat
    PROVE  SaturatingSub(a, b) \in Nat
BY DEF SaturatingSub

\* Every initial queue is a sequence of task ids.
LEMMA QueuesAreSeqs == Queues \subseteq Seq(TaskIds)
BY DEF Queues

\* What run_tasks returns is a sequence of the ids it was given.
LEMMA RemainingType ==
    ASSUME NEW ids \in Seq(TaskIds), NEW n \in 0..Len(ids)
    PROVE  Remaining(ids, n) \in Seq(TaskIds)
<1>1. \A i \in n + 1 .. Len(ids) : ids[i] \in TaskIds
  OBVIOUS
<1> QED
  BY <1>1, SubSeqProperties DEF Remaining

\* What run_tasks returns is the part of its ids past consumed_task_index,
\* also when every id was consumed and split_off is not reached.
LEMMA RemainingIsSubSeq ==
    ASSUME NEW ids \in Seq(TaskIds), NEW n \in 0..Len(ids)
    PROVE  Remaining(ids, n) = SubSeq(ids, n + 1, Len(ids))
<1>1. CASE n = Len(ids)
  BY <1>1, SubSeqEmpty DEF Remaining
<1>2. CASE n # Len(ids)
  BY <1>2 DEF Remaining
<1> QED
  BY <1>1, <1>2

------------------------------------------------------------------------------
(* Type correctness.                                                       *)

LEMMA InitTypeOK == Init => TypeOK
<1> SUFFICES ASSUME Init PROVE TypeOK
  OBVIOUS
<1>1. queue \in Seq(TaskIds)
  BY QueuesAreSeqs DEF Init
<1>2. taskIds \in Seq(TaskIds) /\ consumed \in 0..Len(taskIds)
  BY DEF Init
<1> QED
  BY <1>1, <1>2 DEF Init, TypeOK

LEMMA NextTypeOK == TypeOK /\ [Next]_vars => TypeOK'
<1> SUFFICES ASSUME TypeOK, [Next]_vars PROVE TypeOK'
  OBVIOUS
<1>1. CASE RunTask
  <2> DEFINE id == taskIds[consumed + 1]
             w == ActionWeight(tasks, id)
  <2>1. id \in TaskIds /\ w \in Nat
    BY <1>1, ActionWeightNat DEF RunTask, TypeOK
  <2>2. SaturatingSub(weightLeft, w) \in Nat
    BY <2>1, SaturatingSubNat DEF TypeOK
  <2> QED
    BY <1>1, <2>1, <2>2 DEF RunTask, TypeOK
<1>2. CASE ReturnRemaining
  BY <1>2, RemainingType DEF ReturnRemaining, TypeOK
<1>3. CASE TriggerTasksPass
  <2>1. taskIds' \in Seq(TaskIds) /\ consumed' \in 0..Len(taskIds')
    BY <1>3 DEF TriggerTasksPass, TypeOK
  <2>2. weightLeft' \in Nat /\ budget' \in Nat /\ spent' \in Nat
    BY <1>3, PassBudgetNat DEF TriggerTasksPass
  <2>3. tasks' = tasks /\ queue' = queue /\ reported' = reported
        /\ stopped' = FALSE /\ phase' = "running"
    BY <1>3 DEF TriggerTasksPass
  <2> QED
    BY <2>1, <2>2, <2>3 DEF TypeOK
<1>4. CASE IdleBlock
  BY <1>4, PassBudgetNat, WeightsNat DEF IdleBlock, TypeOK
<1>5. CASE UNCHANGED vars
  BY <1>5 DEF vars, TypeOK
<1> QED
  BY <1>1, <1>2, <1>3, <1>4, <1>5 DEF Next

\* Every state run_tasks and the per-block pass reach is well typed.
THEOREM TypeCorrect == Spec => []TypeOK
BY InitTypeOK, NextTypeOK, PTL DEF Spec

------------------------------------------------------------------------------
(* What run_tasks returns.  RunTasksReturn is not inductive: it speaks of  *)
(* the idle phase only, and needs to know, inside run_tasks, that every   *)
(* id consumed so far has left the store.                                  *)

ConsumedRemoved ==
    phase = "running" => \A i \in 1..consumed : tasks[taskIds[i]] = Absent

IInv == TypeOK /\ ConsumedRemoved /\ RunTasksReturn

LEMMA InitIInv == Init => IInv
BY InitTypeOK DEF Init, IInv, ConsumedRemoved, RunTasksReturn

LEMMA NextIInv == IInv /\ [Next]_vars => IInv'
<1> SUFFICES ASSUME IInv, [Next]_vars PROVE IInv'
  OBVIOUS
<1>1. TypeOK'
  BY NextTypeOK DEF IInv
<1>2. CASE RunTask
  <2> DEFINE id == taskIds[consumed + 1]
  <2>1. id \in TaskIds /\ consumed + 1 \in 1..Len(taskIds)
    BY <1>2 DEF RunTask, IInv, TypeOK
  <2>2. tasks' = [tasks EXCEPT ![id] = Absent] /\ consumed' = consumed + 1
        /\ taskIds' = taskIds /\ phase' = "running"
    BY <1>2 DEF RunTask
  <2>3. \A i \in 1..consumed : taskIds[i] \in TaskIds
    BY <2>1 DEF IInv, TypeOK
  <2>4. ConsumedRemoved'
    BY <2>1, <2>2, <2>3, <1>2 DEF ConsumedRemoved, IInv, TypeOK, RunTask
  <2>5. RunTasksReturn'
    BY <2>2 DEF RunTasksReturn
  <2> QED
    BY <1>1, <2>4, <2>5 DEF IInv
<1>3. CASE ReturnRemaining
  <2>1. queue' = SubSeq(taskIds, consumed + 1, Len(taskIds))
    BY <1>3, RemainingIsSubSeq DEF ReturnRemaining, IInv, TypeOK
  <2>2. RunTasksReturn'
    BY <1>3, <2>1 DEF ReturnRemaining, RunTasksReturn, IInv, ConsumedRemoved
  <2>3. ConsumedRemoved'
    BY <1>3 DEF ReturnRemaining, ConsumedRemoved
  <2> QED
    BY <1>1, <2>2, <2>3 DEF IInv
<1>4. CASE TriggerTasksPass
  BY <1>1, <1>4 DEF TriggerTasksPass, IInv, ConsumedRemoved, RunTasksReturn
<1>5. CASE IdleBlock
  BY <1>1, <1>5 DEF IdleBlock, IInv, ConsumedRemoved, RunTasksReturn
<1>6. CASE UNCHANGED vars
  BY <1>1, <1>6 DEF vars, IInv, ConsumedRemoved, RunTasksReturn
<1> QED
  BY <1>2, <1>3, <1>4, <1>5, <1>6 DEF Next

LEMMA SpecIInv == Spec => []IInv
BY InitIInv, NextIInv, PTL DEF Spec

\* When run_tasks returns, the queue it leaves is exactly the ids it did
\* not consume, and every id it consumed has left Tasks (split_off and
\* Tasks::remove in run_tasks), for every queue and every weight.
THEOREM ReturnCorrect == Spec => []RunTasksReturn
BY SpecIInv, PTL DEF IInv
------------------------------------------------------------------------------
(* Refinement: under the mapping PendingQueue, every step of run_tasks and *)
(* the per-block pass is a step of the FIFO engine or leaves the engine's  *)
(* state alone.                                                            *)

LEMMA InitRefines == Init => Abstract!Init
<1> SUFFICES ASSUME Init PROVE Abstract!Init
  OBVIOUS
<1>1. PendingQueue = queue
  BY DEF Init, PendingQueue
<1> QED
  BY <1>1 DEF Init, Abstract!Init, Abstract!Queues, Queues, Abstract!Actions, Actions

LEMMA StepRefines ==
    IInv /\ [Next]_vars => [Abstract!RunHead]_<<tasks, PendingQueue>>
<1> SUFFICES ASSUME IInv, [Next]_vars
             PROVE  [Abstract!RunHead]_<<tasks, PendingQueue>>
  OBVIOUS
<1> USE DEF IInv, TypeOK
<1>1. CASE RunTask
  <2> DEFINE c == consumed
             L == Len(taskIds)
  <2>1. c + 1 \in 1..L /\ L \in c + 1 .. L
    BY <1>1 DEF RunTask
  <2>2. PendingQueue = SubSeq(taskIds, c + 1, L)
        /\ PendingQueue' = SubSeq(taskIds, c + 2, L)
    BY <1>1 DEF RunTask, PendingQueue
  <2>3. Head(SubSeq(taskIds, c + 1, L)) = taskIds[c + 1]
        /\ Tail(SubSeq(taskIds, c + 1, L)) = SubSeq(taskIds, c + 2, L)
    BY <2>1, HeadTailOfSubSeq
  <2>4. SubSeq(taskIds, c + 1, L) # <<>>
    <3>1. \A i \in c + 1 .. L : taskIds[i] \in TaskIds
      BY <2>1
    <3>2. /\ SubSeq(taskIds, c + 1, L) \in Seq(TaskIds)
          /\ Len(SubSeq(taskIds, c + 1, L)) = L - c
      BY <2>1, <3>1, SubSeqProperties
    <3>3. L - c > 0
      BY <2>1
    <3>4. SubSeq(taskIds, c + 1, L) = <<>> => Len(SubSeq(taskIds, c + 1, L)) = 0
      BY EmptySeq
    <3> QED
      BY <3>2, <3>3, <3>4
  <2>5. tasks' = [tasks EXCEPT ![taskIds[c + 1]] = Absent]
    BY <1>1 DEF RunTask
  <2> QED
    BY <2>2, <2>3, <2>4, <2>5 DEF Abstract!RunHead
<1>2. CASE ReturnRemaining
  <2>1. queue' = SubSeq(taskIds, consumed + 1, Len(taskIds))
    BY <1>2, RemainingIsSubSeq DEF ReturnRemaining
  <2> QED
    BY <1>2, <2>1 DEF ReturnRemaining, PendingQueue
<1>3. CASE TriggerTasksPass
  <2>1. SubSeq(queue, 1, Len(queue)) = queue
    BY SubSeqFull
  <2> QED
    BY <1>3, <2>1 DEF TriggerTasksPass, PendingQueue
<1>4. CASE IdleBlock
  BY <1>4 DEF IdleBlock, PendingQueue
<1>5. CASE UNCHANGED vars
  BY <1>5 DEF vars, PendingQueue
<1> QED
  BY <1>1, <1>2, <1>3, <1>4, <1>5 DEF Next

\* run_tasks driven once per block implements the safety part of the FIFO
\* engine of spec §4.3: tasks run in queue order, each run removes its task
\* from the store, and nothing else changes the pending queue or the store.
THEOREM ImplementsFifoSafety == Spec => FifoExecution
<1>1. Spec => Abstract!Init
  BY InitRefines, PTL DEF Spec
<1>2. Spec => [][Abstract!RunHead]_<<tasks, PendingQueue>>
  BY SpecIInv, StepRefines, PTL DEF Spec
<1> QED
  BY <1>1, <1>2 DEF FifoExecution, Abstract!SafetySpec
------------------------------------------------------------------------------
(* The budget overrun.  run_tasks charges a task after running it, so it   *)
(* may pass its budget (the run run_tasks_budget shows it), but only by    *)
(* the task that crossed it: saturating_sub leaves no weight, and the      *)
(* break follows, provided an iteration costs something.  The invariant    *)
(* adds that, while within budget, the weight charged and the weight left  *)
(* add up to the budget.                                                   *)

ChargeAccounted == spent <= budget => spent + weightLeft = budget

OInv == TypeOK /\ ChargeAccounted /\ BudgetOverrunStops

\* No iteration of run_tasks charges more than LargestActionWeight.
LEMMA ActionWeightBound ==
    ASSUME NEW store, NEW id
    PROVE  ActionWeight(store, id) <= LargestActionWeight
BY WeightsNat DEF ActionWeight, LargestActionWeight

LEMMA LargestActionWeightNat == LargestActionWeight \in Nat
BY WeightsNat DEF LargestActionWeight

LEMMA InitOInv == Init => OInv
BY InitTypeOK DEF Init, OInv, ChargeAccounted, BudgetOverrunStops

\* Given that an iteration costs something, OInv is inductive.
LEMMA NextOInv ==
    ASSUME RunAnotherTaskWeight > 0
    PROVE  OInv /\ [Next]_vars => OInv'
<1> SUFFICES ASSUME OInv, [Next]_vars PROVE OInv'
  OBVIOUS
<1>1. TypeOK'
  BY NextTypeOK DEF OInv
<1>0. RunAnotherTaskWeight \in Nat /\ LargestActionWeight \in Nat
  BY WeightsNat, LargestActionWeightNat DEF RunAnotherTaskWeight
<1>2. CASE RunTask
  <2> DEFINE id == taskIds[consumed + 1]
             w == ActionWeight(tasks, id)
  <2>1. /\ w \in Nat /\ w <= LargestActionWeight
        /\ weightLeft \in Nat /\ spent \in Nat /\ budget \in Nat
    BY ActionWeightNat, ActionWeightBound DEF OInv, TypeOK
  <2>2. spent <= budget /\ spent + weightLeft = budget
    <3>1. ~stopped
      BY <1>2 DEF RunTask
    <3>2. ~(spent > budget)
      BY <3>1 DEF OInv, BudgetOverrunStops
    <3> QED
      BY <2>1, <3>2 DEF OInv, ChargeAccounted
  <2>3. /\ weightLeft' = SaturatingSub(weightLeft, w)
        /\ spent' = spent + w /\ budget' = budget
        /\ stopped' = (SaturatingSub(weightLeft, w) < RunAnotherTaskWeight)
    BY <1>2 DEF RunTask
  <2>4. CASE w <= weightLeft
    <3>1. weightLeft' = weightLeft - w
      BY <2>1, <2>3, <2>4 DEF SaturatingSub
    <3> QED
      BY <1>1, <2>1, <2>2, <2>3, <2>4, <3>1
         DEF OInv, ChargeAccounted, BudgetOverrunStops
  <2>5. CASE w > weightLeft
    <3>0. SaturatingSub(weightLeft, w) = 0
      BY <2>1, <2>5 DEF SaturatingSub
    <3>1. weightLeft' = 0 /\ stopped'
      <4>1. SaturatingSub(weightLeft, w) < RunAnotherTaskWeight
        BY <1>0, <3>0
      <4> QED
        BY <2>3, <3>0, <4>1, Zenon
    <3>2. spent' <= budget' + LargestActionWeight
      BY <1>0, <2>1, <2>2, <2>3
    <3>3. spent' > budget'
      BY <2>1, <2>2, <2>3, <2>5
    <3>4. ChargeAccounted'
      BY <2>1, <2>3, <3>3 DEF ChargeAccounted
    <3>5. BudgetOverrunStops'
      BY <3>1, <3>2 DEF BudgetOverrunStops
    <3> QED
      BY <1>1, <3>4, <3>5 DEF OInv
  <2> QED
    BY <2>1, <2>4, <2>5
<1>3. CASE ReturnRemaining
  BY <1>1, <1>3 DEF ReturnRemaining, OInv, ChargeAccounted, BudgetOverrunStops
<1>4. CASE TriggerTasksPass
  BY <1>1, <1>4, PassBudgetNat
     DEF TriggerTasksPass, OInv, ChargeAccounted, BudgetOverrunStops
<1>5. CASE IdleBlock
  BY <1>1, <1>5 DEF IdleBlock, OInv, ChargeAccounted, BudgetOverrunStops
<1>6. CASE UNCHANGED vars
  BY <1>1, <1>6 DEF vars, OInv, ChargeAccounted, BudgetOverrunStops
<1> QED
  BY <1>2, <1>3, <1>4, <1>5, <1>6 DEF Next

\* run_tasks oversteps its budget by at most one action's weight and then
\* breaks out of its loop, for every queue and every choice of weights in
\* which an iteration (emit_event, one write, one read) costs something.
THEOREM OverrunStops ==
    ASSUME RunAnotherTaskWeight > 0
    PROVE  Spec => []BudgetOverrunStops
<1>1. Init => OInv
  BY InitOInv
<1>2. OInv /\ [Next]_vars => OInv'
  BY NextOInv
<1> QED
  BY <1>1, <1>2, PTL DEF Spec, OInv
------------------------------------------------------------------------------
(* Progress of each pass.  The budget of run_tasks is tested only after a  *)
(* task ran, so a pass handed a non-empty queue never stops before its     *)
(* first id.  The invariant adds what holds inside run_tasks: the ids are  *)
(* not empty, and a loop that has broken has consumed an id.               *)

PassStarted == phase = "running" => taskIds # <<>> /\ (stopped => consumed >= 1)

PassConsumed == phase = "idle" /\ taskIds # <<>> => consumed >= 1

PInv == IInv /\ PassStarted /\ PassConsumed

\* The ids a returned pass leaves are as many as it did not consume.
LEMMA RemainingLen ==
    ASSUME NEW ids \in Seq(TaskIds), NEW n \in 0..Len(ids)
    PROVE  Len(SubSeq(ids, n + 1, Len(ids))) = Len(ids) - n
<1>1. \A i \in n + 1 .. Len(ids) : ids[i] \in TaskIds
  OBVIOUS
<1> QED
  BY <1>1, SubSeqProperties

LEMMA InitPInv == Init => PInv
BY InitIInv DEF Init, PInv, PassStarted, PassConsumed

LEMMA NextPInv == PInv /\ [Next]_vars => PInv'
<1> SUFFICES ASSUME PInv, [Next]_vars PROVE PInv'
  OBVIOUS
<1>1. IInv'
  BY NextIInv DEF PInv
<1>2. CASE RunTask
  <2>1. consumed \in Nat /\ consumed' = consumed + 1
        /\ UNCHANGED <<taskIds, phase>> /\ phase = "running"
    BY <1>2 DEF RunTask, PInv, IInv, TypeOK
  <2> QED
    BY <1>1, <2>1 DEF PInv, PassStarted, PassConsumed
<1>3. CASE ReturnRemaining
  <2>1. /\ phase = "running" /\ phase' = "idle"
        /\ UNCHANGED <<taskIds, consumed>>
        /\ stopped \/ consumed = Len(taskIds)
    BY <1>3 DEF ReturnRemaining
  <2>2. taskIds \in Seq(TaskIds) /\ consumed \in Nat
    BY DEF PInv, IInv, TypeOK
  <2>3. taskIds # <<>> => Len(taskIds) >= 1
    BY <2>2, EmptySeq
  <2>4. taskIds # <<>> /\ (stopped => consumed >= 1)
    BY <2>1 DEF PInv, PassStarted
  <2> QED
    BY <1>1, <2>1, <2>3, <2>4 DEF PInv, PassStarted, PassConsumed
<1>4. CASE TriggerTasksPass
  BY <1>1, <1>4 DEF TriggerTasksPass, PInv, PassStarted, PassConsumed
<1>5. CASE IdleBlock
  BY <1>1, <1>5 DEF IdleBlock, PInv, PassStarted, PassConsumed
<1>6. CASE UNCHANGED vars
  BY <1>1, <1>6 DEF vars, PInv, PassStarted, PassConsumed
<1> QED
  BY <1>2, <1>3, <1>4, <1>5, <1>6 DEF Next

LEMMA PInvProgress == PInv => PassMakesProgress
<1> SUFFICES ASSUME PInv, phase = "idle", taskIds # <<>>
             PROVE  consumed >= 1 /\ Len(queue) < Len(taskIds)
  BY DEF PassMakesProgress
<1>1. consumed >= 1
  BY DEF PInv, PassConsumed
<1>2. queue = SubSeq(taskIds, consumed + 1, Len(taskIds))
  BY DEF PInv, IInv, RunTasksReturn
<1>3. taskIds \in Seq(TaskIds) /\ consumed \in 0..Len(taskIds)
  BY DEF PInv, IInv, TypeOK
<1>4. Len(queue) = Len(taskIds) - consumed
  BY <1>2, <1>3, RemainingLen
<1> QED
  BY <1>1, <1>3, <1>4

\* Every pass of run_tasks over a non-empty queue consumes at least its
\* first id and leaves a strictly shorter TaskQueue, whatever the weights:
\* the budget check follows the task it charges, for every queue and every
\* weight.
THEOREM ProgressEachPass == Spec => []PassMakesProgress
<1>1. Spec => []PInv
  BY InitPInv, NextPInv, PTL DEF Spec
<1> QED
  BY <1>1, PInvProgress, PTL
=============================================================================
