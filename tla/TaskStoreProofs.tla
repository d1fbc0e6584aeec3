--------------------------- MODULE TaskStoreProofs ---------------------------
(***************************************************************************)
(* Proofs about the task store and its sorted index (AutomationPrice), for *)
(* every value of the constants: the ids in Tasks are issued by past       *)
(* contexts, so the unchecked Tasks::insert of validate_and_schedule_task  *)
(* never overwrites a task, and every index entry names its stored task.   *)
(*                                                                         *)
(* The last two rest on the injectivity of generate_task_id, which        *)
(* TaskIdProofs derives from DecimalNotation: decimal notation writes      *)
(* numbers with digits only, and different numbers differently.  That is  *)
(* an induction over the recursive DecimalDigits, out of the provers'      *)
(* reach; it is the hypothesis of those theorems, and the run              *)
(* task_id_roundtrip checks it on small numbers.                           *)
(***************************************************************************)
EXTENDS AutomationPriceProofs, TaskIdProofs, TLAPS

\* The context generate_task_id reads stays in range: block numbers start
\* at 1 and the extrinsic index never passes MaxExtrinsics.
ContextBound == blockNumber >= 1 /\ extrinsicIndex <= MaxExtrinsics

IdInv == TypeOK /\ ContextBound /\ IdsIssued

------------------------------------------------------------------------------
(* The three kinds of step, as the task store sees them.                   *)

\* The success branch of schedule_xcmp_task with origin o, key k and
\* trigger parameters p: the task is inserted under the id of the current
\* context and indexed, and TaskScheduled is deposited.
ScheduleSucceeds(o, k, p) ==
    LET id == GenerateTaskId(blockNumber, extrinsicIndex, eventCount)
        task == [owner |-> o, key |-> k, triggerParams |-> p, action |-> "XCMP"]
    IN /\ p # <<>>
       /\ tasks' = [t \in DOMAIN tasks \cup {id} |-> IF t = id THEN task ELSE tasks[t]]
       /\ sortedTasksIndex' = InsertIntoSortedIndex(sortedTasksIndex, k, id, p[1])
       /\ Succeed(o, 1)

\* Steps that leave the store, the index and the block number alone and do
\* not lower the event count.
StoreKept ==
    /\ UNCHANGED <<tasks, sortedTasksIndex, blockNumber>>
    /\ eventCount' \in Nat /\ eventCount <= eventCount'

\* A failing or panicking call keeps the task store and the block number.
LEMMA FailKept ==
    ASSUME TypeOK, NEW o, NEW e, Fail(o, e) PROVE StoreKept
BY DEF Fail, StoreKept, storage, context, TypeOK

\* A successful call that writes no task keeps the store and raises the
\* event count.
LEMMA SucceedKept ==
    ASSUME TypeOK, NEW o, NEW n \in Nat, Succeed(o, n),
           UNCHANGED <<tasks, sortedTasksIndex>>
    PROVE  StoreKept
BY DEF Succeed, StoreKept, TypeOK

\* Every step of the pallet keeps the store, starts a new block, or is a
\* validate_and_schedule_task that succeeds.
LEMMA StepKinds ==
    ASSUME TypeOK, [Next]_vars
    PROVE  \/ StoreKept
           \/ NewBlock
           \/ \E o \in Origins, k \in AssetKeys, p \in TriggerParamInputs :
                 ScheduleSucceeds(o, k, p)
<1>1. ASSUME NEW o, NEW k, NEW owners, InitializeAsset(o, k, owners)
      PROVE  StoreKept
  BY <1>1, FailKept, SucceedKept DEF InitializeAsset, CreateNewAsset
<1>2. ASSUME NEW o, NEW b, UpdateAssetPrices(o, b) PROVE StoreKept
  BY <1>2, FailKept, SucceedKept DEF UpdateAssetPrices
<1>3. ASSUME NEW o, NEW k, DeleteAsset(o, k) PROVE StoreKept
  BY <1>3, FailKept, SucceedKept DEF DeleteAsset, storage
<1>4. ASSUME NEW o \in Origins, NEW k \in AssetKeys, NEW p \in TriggerParamInputs,
             NEW d, NEW f, ScheduleXcmpTask(o, k, p, d, f)
      PROVE  StoreKept \/ ScheduleSucceeds(o, k, p)
  BY <1>4, FailKept DEF ScheduleXcmpTask, ValidateAndScheduleTask, ScheduleSucceeds
<1>5. ASSUME NEW flag, SetShutdown(flag) PROVE StoreKept
  BY <1>5, SucceedKept DEF SetShutdown
<1>6. CASE FinishExtrinsic \/ UNCHANGED vars
  BY <1>6 DEF FinishExtrinsic, vars, storage, context, StoreKept, TypeOK
<1> QED
  BY <1>1, <1>2, <1>3, <1>4, <1>5, <1>6 DEF Next

------------------------------------------------------------------------------
(* Stored ids come from past contexts.                                     *)

LEMMA InitIdInv == Init => IdInv
<1> SUFFICES ASSUME Init PROVE IdInv
  OBVIOUS
<1>1. ContextBound
  BY ConstantsAssumption DEF Init, ContextBound
<1>2. IdsIssued
  BY DEF Init, IdsIssued
<1> QED
  BY <1>1, <1>2, InitTypeOK DEF IdInv

\* A step that keeps the store and the block and does not lower the event
\* count keeps every stored id in the past.
LEMMA KeptIdsIssued ==
    ASSUME TypeOK, IdsIssued, StoreKept PROVE IdsIssued'
<1> SUFFICES ASSUME NEW id \in DOMAIN tasks'
             PROVE  \E b \in 1..blockNumber', x \in 0..MaxExtrinsics, e \in IdFields :
                        /\ id = GenerateTaskId(b, x, e)
                        /\ b < blockNumber' \/ e < eventCount'
  BY DEF IdsIssued
<1>1. PICK b \in 1..blockNumber, x \in 0..MaxExtrinsics, e \in IdFields :
          /\ id = GenerateTaskId(b, x, e)
          /\ b < blockNumber \/ e < eventCount
  BY DEF IdsIssued, StoreKept
<1> QED
  BY <1>1 DEF StoreKept, TypeOK, IdFields

\* A new block lies after every block before it.
LEMMA NewBlockIdsIssued ==
    ASSUME TypeOK, IdsIssued, NewBlock PROVE IdsIssued'
<1> SUFFICES ASSUME NEW id \in DOMAIN tasks'
             PROVE  \E b \in 1..blockNumber', x \in 0..MaxExtrinsics, e \in IdFields :
                        /\ id = GenerateTaskId(b, x, e)
                        /\ b < blockNumber' \/ e < eventCount'
  BY DEF IdsIssued
<1>1. PICK b \in 1..blockNumber, x \in 0..MaxExtrinsics, e \in IdFields :
          id = GenerateTaskId(b, x, e)
  BY DEF IdsIssued, NewBlock, storage
<1>2. b \in 1..blockNumber' /\ b < blockNumber'
  BY DEF NewBlock, TypeOK
<1> QED
  BY <1>1, <1>2

\* A scheduled task's id is that of the current context, which the event
\* it deposits puts in the past.
LEMMA ScheduleIdsIssued ==
    ASSUME TypeOK, ContextBound, IdsIssued,
           NEW o, NEW k, NEW p, ScheduleSucceeds(o, k, p)
    PROVE  IdsIssued'
<1> DEFINE new == GenerateTaskId(blockNumber, extrinsicIndex, eventCount)
<1> SUFFICES ASSUME NEW id \in DOMAIN tasks'
             PROVE  \E b \in 1..blockNumber', x \in 0..MaxExtrinsics, e \in IdFields :
                        /\ id = GenerateTaskId(b, x, e)
                        /\ b < blockNumber' \/ e < eventCount'
  BY DEF IdsIssued
<1>1. blockNumber' = blockNumber /\ eventCount' = eventCount + 1
  BY DEF ScheduleSucceeds, Succeed
<1>2. CASE id = new
  <2>1. /\ blockNumber \in 1..blockNumber
        /\ extrinsicIndex \in 0..MaxExtrinsics
        /\ eventCount \in IdFields
        /\ eventCount < eventCount + 1
    BY DEF TypeOK, ContextBound, IdFields
  <2> QED
    BY <1>1, <1>2, <2>1
<1>3. CASE id # new
  <2>1. id \in DOMAIN tasks
    BY <1>3 DEF ScheduleSucceeds
  <2>2. PICK b \in 1..blockNumber, x \in 0..MaxExtrinsics, e \in IdFields :
            /\ id = GenerateTaskId(b, x, e)
            /\ b < blockNumber \/ e < eventCount
    BY <2>1 DEF IdsIssued
  <2> QED
    BY <1>1, <2>2 DEF TypeOK, IdFields
<1> QED
  BY <1>2, <1>3

\* No step moves the block number below 1 or the extrinsic index past
\* MaxExtrinsics.
LEMMA NextContextBound == TypeOK /\ ContextBound /\ [Next]_vars => ContextBound'
<1> SUFFICES ASSUME TypeOK, ContextBound, [Next]_vars PROVE ContextBound'
  OBVIOUS
<1>0. blockNumber \in Nat /\ extrinsicIndex \in Nat /\ MaxExtrinsics \in Nat
  BY ConstantsAssumption DEF TypeOK
<1>1. CASE FinishExtrinsic
  BY <1>0, <1>1 DEF FinishExtrinsic, ContextBound
<1>3. CASE NewBlock
  BY <1>0, <1>3 DEF NewBlock, ContextBound
<1>2. CASE ~FinishExtrinsic /\ ~NewBlock
  <2>1. UNCHANGED <<blockNumber, extrinsicIndex>>
    <3>1. ASSUME NEW o, NEW n, Succeed(o, n) PROVE UNCHANGED <<blockNumber, extrinsicIndex>>
      BY <3>1 DEF Succeed
    <3>2. ASSUME NEW o, NEW e, Fail(o, e) PROVE UNCHANGED <<blockNumber, extrinsicIndex>>
      BY <3>2 DEF Fail, context
    <3> QED
      BY <1>2, <3>1, <3>2 DEF Next, vars, context, InitializeAsset, CreateNewAsset,
         UpdateAssetPrices, DeleteAsset, ScheduleXcmpTask, ValidateAndScheduleTask,
         SetShutdown
  <2> QED
    BY <2>1 DEF ContextBound
<1> QED
  BY <1>1, <1>2, <1>3

\* IdInv is inductive.
LEMMA NextIdInv == IdInv /\ [Next]_vars => IdInv'
<1> SUFFICES ASSUME IdInv, [Next]_vars PROVE IdInv'
  OBVIOUS
<1>1. TypeOK' /\ ContextBound'
  BY NextTypeOK, NextContextBound DEF IdInv
<1>2. IdsIssued'
  <2>1. CASE StoreKept
    BY <2>1, KeptIdsIssued DEF IdInv
  <2>2. CASE NewBlock
    BY <2>2, NewBlockIdsIssued DEF IdInv
  <2>3. CASE \E o \in Origins, k \in AssetKeys, p \in TriggerParamInputs :
                ScheduleSucceeds(o, k, p)
    BY <2>3, ScheduleIdsIssued DEF IdInv
  <2> QED
    BY <2>1, <2>2, <2>3, StepKinds DEF IdInv
<1> QED
  BY <1>1, <1>2 DEF IdInv

\* Every task id in Tasks is the id of an earlier block, or of this block
\* at a smaller event count: the context schedule_xcmp_task reads next has
\* never issued a stored id.
THEOREM IdsAreIssued == Spec => []IdsIssued
<1>1. Spec => []IdInv
  BY InitIdInv, NextIdInv, PTL DEF Spec
<1> QED
  BY <1>1, PTL DEF IdInv

------------------------------------------------------------------------------
(* No task is overwritten, and the index points into the store.           *)

\* The id generate_task_id gives the current context is not in Tasks.
LEMMA FreshId ==
    ASSUME TaskIdInjective, TypeOK, IdsIssued
    PROVE  GenerateTaskId(blockNumber, extrinsicIndex, eventCount) \notin DOMAIN tasks
<1> SUFFICES ASSUME GenerateTaskId(blockNumber, extrinsicIndex, eventCount) \in DOMAIN tasks
             PROVE  FALSE
  OBVIOUS
<1>1. PICK b \in 1..blockNumber, x \in 0..MaxExtrinsics, e \in IdFields :
          /\ GenerateTaskId(blockNumber, extrinsicIndex, eventCount) = GenerateTaskId(b, x, e)
          /\ b < blockNumber \/ e < eventCount
  BY DEF IdsIssued
<1>2. /\ blockNumber \in Nat /\ extrinsicIndex \in Nat /\ eventCount \in Nat
      /\ MaxExtrinsics \in Nat
  BY ConstantsAssumption DEF TypeOK
<1>4. b \in Nat /\ x \in Nat /\ e \in Nat
  BY <1>1, <1>2 DEF IdFields
<1>3. b = blockNumber /\ e = eventCount
  BY <1>1, <1>2, <1>4, SameIdSameContext, SMTT(30)
<1> QED
  BY <1>1, <1>2, <1>3, <1>4

\* What a scheduling step does to Tasks: the old tasks stay, the new one is
\* added under the fresh id.
LEMMA ScheduleExtends ==
    ASSUME TaskIdInjective, TypeOK, IdsIssued,
           NEW o, NEW k, NEW p, ScheduleSucceeds(o, k, p)
    PROVE  LET id == GenerateTaskId(blockNumber, extrinsicIndex, eventCount)
           IN  /\ DOMAIN tasks' = DOMAIN tasks \cup {id}
               /\ \A t \in DOMAIN tasks : t # id /\ tasks'[t] = tasks[t]
               /\ tasks'[id] = [owner |-> o, key |-> k, triggerParams |-> p,
                                action |-> "XCMP"]
BY FreshId DEF ScheduleSucceeds

TaskStoreInv == IdInv /\ IndexedTasksExist

\* Given injective ids, TaskStoreInv is inductive: a schedule writes the
\* index under a fresh id, so the entries of other ids keep their tasks.
LEMMA NextIndexedTasksExist ==
    ASSUME TaskIdInjective
    PROVE  TaskStoreInv /\ [Next]_vars => TaskStoreInv'
<1> SUFFICES ASSUME TaskStoreInv, [Next]_vars PROVE TaskStoreInv'
  OBVIOUS
<1>1. IdInv'
  BY NextIdInv DEF TaskStoreInv
<1>2. ASSUME StoreKept \/ NewBlock PROVE IndexedTasksExist'
  BY <1>2 DEF StoreKept, NewBlock, storage, TaskStoreInv, IndexedTasksExist
<1>3. ASSUME NEW o \in Origins, NEW k \in AssetKeys, NEW p \in TriggerParamInputs,
             ScheduleSucceeds(o, k, p)
      PROVE  IndexedTasksExist'
  <2> DEFINE id == GenerateTaskId(blockNumber, extrinsicIndex, eventCount)
  <2>1. /\ DOMAIN tasks' = DOMAIN tasks \cup {id}
        /\ \A t \in DOMAIN tasks : t # id /\ tasks'[t] = tasks[t]
        /\ tasks'[id] = [owner |-> o, key |-> k, triggerParams |-> p, action |-> "XCMP"]
    BY <1>3, ScheduleExtends DEF TaskStoreInv, IdInv
  <2>2. sortedTasksIndex' = InsertIntoSortedIndex(sortedTasksIndex, k, id, p[1])
    BY <1>3 DEF ScheduleSucceeds
  <2> SUFFICES ASSUME NEW kk \in AssetKeys, sortedTasksIndex'[kk] # Absent,
                      NEW t \in DOMAIN sortedTasksIndex'[kk]
               PROVE  /\ t \in DOMAIN tasks'
                      /\ tasks'[t].key = kk
                      /\ sortedTasksIndex'[kk][t] = tasks'[t].triggerParams[1]
    BY DEF IndexedTasksExist
  <2>3. CASE kk = k /\ sortedTasksIndex[k] = Absent
    <3>1. sortedTasksIndex'[kk] = [u \in {id} |-> p[1]]
      BY <2>2, <2>3 DEF InsertIntoSortedIndex, TaskStoreInv, IdInv, TypeOK
    <3>2. t = id /\ sortedTasksIndex'[kk][t] = p[1]
      BY <3>1
    <3>3. tasks'[t].key = k /\ tasks'[t].triggerParams = p
      BY <2>1, <3>2
    <3> QED
      BY <2>1, <2>3, <3>2, <3>3
  <2>4. CASE ~(kk = k /\ sortedTasksIndex[k] = Absent)
    <3>1. sortedTasksIndex'[kk] = sortedTasksIndex[kk]
      BY <2>2, <2>4 DEF InsertIntoSortedIndex, TaskStoreInv, IdInv, TypeOK
    <3>2. /\ t \in DOMAIN tasks
          /\ tasks[t].key = kk
          /\ sortedTasksIndex[kk][t] = tasks[t].triggerParams[1]
      BY <3>1 DEF TaskStoreInv, IndexedTasksExist
    <3> QED
      BY <2>1, <3>1, <3>2
  <2> QED
    BY <2>3, <2>4
<1> QED
  BY <1>1, <1>2, <1>3, StepKinds DEF TaskStoreInv, IdInv

\* Every entry of SortedTasksIndex names a task stored in Tasks under the
\* same asset key, with the task's first trigger parameter as its value,
\* provided "{:}" writes numbers in decimal notation.
THEOREM IndexPointsToTasks ==
    ASSUME DecimalNotation
    PROVE  Spec => []IndexedTasksExist
<1>0. TaskIdInjective
  BY TaskIdInjectiveFromDecimal
<1>1. Init => TaskStoreInv
  BY InitIdInv DEF Init, TaskStoreInv, IndexedTasksExist
<1>2. TaskStoreInv /\ [Next]_vars => TaskStoreInv'
  BY <1>0, NextIndexedTasksExist
<1> QED
  BY <1>1, <1>2, PTL DEF Spec, TaskStoreInv

\* A step keeps every stored task, unchanged.
TasksKept == \A id \in DOMAIN tasks : id \in DOMAIN tasks' /\ tasks'[id] = tasks[id]

\* Given injective ids, no step replaces or removes a stored task.
LEMMA NextTasksKept ==
    ASSUME TaskIdInjective
    PROVE  IdInv /\ [Next]_vars => TasksKept
<1> SUFFICES ASSUME IdInv, [Next]_vars PROVE TasksKept
  OBVIOUS
<1>1. CASE StoreKept \/ NewBlock
  BY <1>1 DEF StoreKept, NewBlock, storage, TasksKept
<1>2. CASE \E o \in Origins, k \in AssetKeys, p \in TriggerParamInputs :
              ScheduleSucceeds(o, k, p)
  BY <1>2, ScheduleExtends DEF IdInv, TasksKept
<1> QED
  BY <1>1, <1>2, StepKinds DEF IdInv

\* No call replaces or removes a stored task, although Tasks::insert in
\* validate_and_schedule_task does not check for an existing entry,
\* provided "{:}" writes numbers in decimal notation.
THEOREM NoTaskOverwritten ==
    ASSUME DecimalNotation
    PROVE  Spec => TaskNeverOverwritten
<1>0. TaskIdInjective
  BY TaskIdInjectiveFromDecimal
<1>1. Spec => []IdInv
  BY InitIdInv, NextIdInv, PTL DEF Spec
<1>2. IdInv /\ [Next]_vars => [TasksKept]_vars
  BY <1>0, NextTasksKept
<1> QED
  BY <1>1, <1>2, PTL DEF Spec, TaskNeverOverwritten, TasksKept
------------------------------------------------------------------------------
(* The lost index entry (the run index_write_back).  insert_task_into_    *)
(* sorted_index writes a fresh map only for a key with no entry; for a key *)
(* that has one it inserts into a local copy that is never written back.   *)
(* The theorem below shows the loss is not a corner of the small instance: *)
(* every successful schedule on a key that is already indexed stores a     *)
(* task that SortedTasksIndex does not hold.                               *)

\* Every schedule_xcmp_task that succeeds on a key with an index entry
\* leaves its task out of the index, so TasksIndexed fails after it.
ScheduleOnIndexedKeyUnindexed ==
    \A o \in Origins, k \in AssetKeys, p \in TriggerParamInputs :
        sortedTasksIndex[k] # Absent /\ ScheduleSucceeds(o, k, p) => ~TasksIndexed'

\* One such step: the new id is fresh, so it is in no index map, and the
\* index is left as it was.
LEMMA IndexedKeyStepUnindexed ==
    ASSUME TaskIdInjective, IdInv,
           NEW o \in Origins, NEW k \in AssetKeys, NEW p \in TriggerParamInputs,
           sortedTasksIndex[k] # Absent, ScheduleSucceeds(o, k, p)
    PROVE  ~TasksIndexed'
<1> DEFINE id == GenerateTaskId(blockNumber, extrinsicIndex, eventCount)
<1>0. TypeOK /\ IdsIssued
  BY DEF IdInv
<1>1. id \in DOMAIN tasks' /\ tasks'[id].key = k
  <2>1. DOMAIN tasks' = DOMAIN tasks \cup {id}
        /\ tasks'[id] = [owner |-> o, key |-> k, triggerParams |-> p, action |-> "XCMP"]
    BY <1>0, ScheduleExtends, SMTT(30)
  <2> QED
    BY <2>1
<1>2. sortedTasksIndex' = sortedTasksIndex
  BY DEF ScheduleSucceeds, InsertIntoSortedIndex
<1>3. id \notin DOMAIN tasks
  BY <1>0, FreshId
<1>4. DOMAIN sortedTasksIndex[k] \subseteq DOMAIN tasks
  <2>1. PICK D \in SUBSET DOMAIN tasks : sortedTasksIndex[k] \in [D -> TriggerParams]
    BY DEF IdInv, TypeOK
  <2> QED
    BY <2>1
<1> QED
  BY <1>1, <1>2, <1>3, <1>4 DEF TasksIndexed

\* For every number of keys, accounts and blocks, whenever a task is
\* scheduled successfully on an asset key whose SortedTasksIndex entry
\* exists, the task is stored but not indexed (the write-back missing from
\* insert_task_into_sorted_index), provided "{:}" writes numbers in decimal
\* notation.
THEOREM IndexEntryLost ==
    ASSUME DecimalNotation
    PROVE  Spec => [][ScheduleOnIndexedKeyUnindexed]_vars
<1>0. TaskIdInjective
  BY TaskIdInjectiveFromDecimal
<1>1. Spec => []IdInv
  BY InitIdInv, NextIdInv, PTL DEF Spec
<1>2. IdInv => ScheduleOnIndexedKeyUnindexed
  BY <1>0, IndexedKeyStepUnindexed DEF ScheduleOnIndexedKeyUnindexed
<1> QED
  BY <1>1, <1>2, PTL DEF Spec
=============================================================================
