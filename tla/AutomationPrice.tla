--------------------------- MODULE AutomationPrice ---------------------------
(***************************************************************************)
(* The automation-price pallet (pallets/automation-price/src/lib.rs): the  *)
(* asset and price registries, task scheduling with its sorted per-asset   *)
(* index, the shutdown valve and the per-block hook.                       *)
(*                                                                         *)
(* Calls run inside an extrinsic of the current block.  An extrinsic may   *)
(* hold several calls (a utility batch), which then share the extrinsic    *)
(* index; each successful call's events raise the block's event count.     *)
(* Both numbers feed generate_task_id.  Every dispatchable is              *)
(* #[transactional]: an error leaves storage as it was, and a panic drops  *)
(* the extrinsic altogether.                                               *)
(***************************************************************************)
EXTENDS Naturals, Sequences, FiniteSets, TaskIdFormat

CONSTANTS
    Accounts,        \* signed origins: oracle providers and task owners
    Root,            \* the root (sudo) origin
    AssetKeys,       \* (chain, exchange, asset1, asset2) keys calls may name
    Prices,          \* AssetPrice values submitted by oracles
    Rounds,          \* round values submitted by oracles
    TriggerParams,   \* u128 values of a task's trigger_params
    Absent,          \* "no entry" in a storage map
    OracleSets,      \* oracle_providers lists initialize_asset is given
    MaxBatch,        \* longest update_asset_prices batch tried
    MaxBlocks,       \* last block number explored
    MaxExtrinsics,   \* extrinsics applied per block
    MaxEvents,       \* cap on a block's event count for calls that only emit
    MaxTasks,        \* cap on the number of stored tasks
    DbReadWeight,    \* T::DbWeight::get().reads(1)
    MaxBlockWeight,  \* T::MaxBlockWeight
    MaxWeightPercentage  \* T::MaxWeightPercentage, in parts per billion

\* Perbill's accuracy: MaxWeightPercentage is in parts per billion.
PerbillAccuracy == 1000000000

ASSUME ConstantsAssumption ==
    /\ Root \notin Accounts
    /\ OracleSets \subseteq SUBSET Accounts
    /\ Prices \subseteq Nat /\ Rounds \subseteq Nat /\ TriggerParams \subseteq Nat
    /\ {MaxBatch, MaxBlocks, MaxExtrinsics, MaxEvents, MaxTasks} \subseteq Nat
    /\ {DbReadWeight, MaxBlockWeight} \subseteq Nat
    /\ MaxWeightPercentage \in Nat /\ MaxWeightPercentage <= PerbillAccuracy

VARIABLES
    assetRegistry,     \* AssetRegistry: key -> oracle_providers, or Absent
    priceRegistry,     \* PriceRegistry: key -> PriceData, or Absent
    sortedTasksIndex,  \* SortedTasksIndex: key -> (task id -> threshold), or Absent
    tasks,             \* Tasks: task id -> Task
    shutdown,          \* Shutdown flag (ValueQuery, default false)
    taskQueue,         \* TaskQueue (ValueQuery, default empty); nothing writes it
    blockNumber,       \* frame_system block number
    extrinsicIndex,    \* frame_system extrinsic index of the current extrinsic
    eventCount,        \* frame_system event count of the current block
    lastCall,          \* origin and DispatchResult of the latest call
    onInitializeWeight \* weight returned by the latest on_initialize

storage == <<assetRegistry, priceRegistry, sortedTasksIndex, tasks, shutdown, taskQueue>>
context == <<blockNumber, extrinsicIndex, eventCount>>
vars == <<storage, context, lastCall, onInitializeWeight>>

Origins == Accounts \cup {Root}
Results == {"Ok", "BadOrigin", "AssetAlreadyInitialized", "AssetNotInitialized",
            "OracleNotAuthorized", "AssetNotSupported", "BadVersion",
            "EmptyProvidedId", "Panic"}

\* PriceData; nonce is the hard-coded 1 (lib.rs 508).
PriceData == [round : Rounds, nonce : {1}, amount : Prices]

\* Task<T> as schedule_xcmp_task builds it; the XCMP payload (locations,
\* fees, encoded call) is opaque to the pallet and left out.
TaskRecords == [owner : Accounts, key : AssetKeys,
                triggerParams : Seq(TriggerParams), action : {"XCMP"}]

BatchEntries == [key : AssetKeys, price : Prices, round : Rounds]
Batches == UNION {[1..n -> BatchEntries] : n \in 0..MaxBatch}
TriggerParamInputs == {<<>>} \cup {<<p>> : p \in TriggerParams}

------------------------------------------------------------------------------
(* Storage declarations with their defaults: every map empty, Shutdown     *)
(* false.  Block 1 opens with on_initialize having run.                    *)

\* on_initialize's budget: MaxWeightPercentage.mul_floor(MaxBlockWeight).
MaxWeight == (MaxWeightPercentage * MaxBlockWeight) \div PerbillAccuracy

\* trigger_tasks: returns weight_left, which is max_weight on both paths
\* because the reset and task passes are commented out.
TriggerTasks(maxWeight) ==
    LET weightLeft == maxWeight
        checkTimeAndDeletionWeight == 2 * DbReadWeight
    IN IF weightLeft < checkTimeAndDeletionWeight THEN weightLeft
       ELSE weightLeft

\* on_initialize: one read of Shutdown when shut down, else trigger_tasks.
OnInitialize(isShutdown) ==
    IF isShutdown THEN DbReadWeight ELSE TriggerTasks(MaxWeight)

Init ==
    /\ assetRegistry = [k \in AssetKeys |-> Absent]
    /\ priceRegistry = [k \in AssetKeys |-> Absent]
    /\ sortedTasksIndex = [k \in AssetKeys |-> Absent]
    /\ tasks = [id \in {} |-> Absent]
    /\ shutdown = FALSE
    /\ taskQueue = <<>>
    /\ blockNumber = 1
    /\ extrinsicIndex = 0
    /\ eventCount = 0
    /\ lastCall = Absent
    /\ onInitializeWeight = OnInitialize(FALSE)

\* A call that returns an error: storage and events roll back.
Fail(origin, error) ==
    /\ lastCall' = [origin |-> origin, result |-> error]
    /\ UNCHANGED <<storage, context, onInitializeWeight>>

\* A call that succeeds and deposits n events.
Succeed(origin, n) ==
    /\ lastCall' = [origin |-> origin, result |-> "Ok"]
    /\ eventCount' = eventCount + n
    /\ UNCHANGED <<blockNumber, extrinsicIndex, onInitializeWeight>>

------------------------------------------------------------------------------
(* Asset and price registry.                                               *)

\* create_new_asset: AssetAlreadyInitialized for a known key, else insert
\* RegistryInfo (round 0, last_update 0, the given providers) and deposit
\* AssetCreated.  decimal, round and last_update are never read and are
\* left out.
CreateNewAsset(origin, key, owners) ==
    \/ /\ assetRegistry[key] # Absent
       /\ Fail(origin, "AssetAlreadyInitialized")
    \/ /\ assetRegistry[key] = Absent
       /\ assetRegistry' = [assetRegistry EXCEPT ![key] = owners]
       /\ Succeed(origin, 1)
       /\ UNCHANGED <<priceRegistry, sortedTasksIndex, tasks, shutdown, taskQueue>>

\* initialize_asset: ensure_root, then create_new_asset.
InitializeAsset(origin, key, owners) ==
    \/ /\ origin # Root
       /\ Fail(origin, "BadOrigin")
    \/ /\ origin = Root
       /\ CreateNewAsset(origin, key, owners)

\* Mutant: the oracle_providers check left out.
EntryErrorNoOracleCheck(who, entry) ==
    IF assetRegistry[entry.key] = Absent THEN "AssetNotInitialized" ELSE "Ok"

\* The error the loop of update_asset_prices raises at one entry, or "Ok".
EntryError(who, entry) ==
    IF assetRegistry[entry.key] = Absent THEN "AssetNotInitialized"
    ELSE IF who \notin assetRegistry[entry.key] THEN "OracleNotAuthorized"
    ELSE "Ok"

\* Mutant: PriceData built with round and amount swapped.
ApplyPricesSwapped(prices, batch) ==
    [k \in AssetKeys |->
        IF \E i \in DOMAIN batch : batch[i].key = k
        THEN LET last == CHOOSE i \in DOMAIN batch :
                            /\ batch[i].key = k
                            /\ \A j \in DOMAIN batch : batch[j].key = k => j <= i
             IN [round |-> batch[last].price, nonce |-> 1,
                 amount |-> batch[last].round]
        ELSE prices[k]]

\* The PriceRegistry after inserting the entries of a batch in order: the
\* last entry of a key wins; no round check.
ApplyPrices(prices, batch) ==
    [k \in AssetKeys |->
        IF \E i \in DOMAIN batch : batch[i].key = k
        THEN LET last == CHOOSE i \in DOMAIN batch :
                            /\ batch[i].key = k
                            /\ \A j \in DOMAIN batch : batch[j].key = k => j <= i
             IN [round |-> batch[last].round, nonce |-> 1,
                 amount |-> batch[last].price]
        ELSE prices[k]]

\* update_asset_prices: ensure_signed, then the loop over the entries; the
\* first failing entry aborts the call and #[transactional] undoes the
\* entries written before it.  No event is deposited.
UpdateAssetPrices(origin, batch) ==
    LET failing == {i \in DOMAIN batch : EntryError(origin, batch[i]) # "Ok"}
        first == CHOOSE i \in failing : \A j \in failing : i <= j
    IN \/ /\ origin = Root
          /\ Fail(origin, "BadOrigin")
       \/ /\ origin # Root
          /\ failing # {}
          /\ Fail(origin, EntryError(origin, batch[first]))
       \/ /\ origin # Root
          /\ failing = {}
          /\ priceRegistry' = ApplyPrices(priceRegistry, batch)
          /\ Succeed(origin, 0)
          /\ UNCHANGED <<assetRegistry, sortedTasksIndex, tasks, shutdown, taskQueue>>

\* delete_asset: ensure_root; a known key only deposits AssetDeleted (the
\* call to delete_asset_tasks is commented out), an unknown one fails.
DeleteAsset(origin, key) ==
    \/ /\ origin # Root
       /\ Fail(origin, "BadOrigin")
    \/ /\ origin = Root
       /\ assetRegistry[key] = Absent
       /\ Fail(origin, "AssetNotSupported")
    \/ /\ origin = Root
       /\ assetRegistry[key] # Absent
       /\ eventCount < MaxEvents
       /\ Succeed(origin, 1)
       /\ UNCHANGED storage

------------------------------------------------------------------------------
(* Task scheduling.                                                        *)

\* Mutant: the index key built with the asset pair swapped.
InsertIntoSortedIndexSwappedPair(index, key, id, threshold) ==
    LET swapped == <<key[1], key[2], key[4], key[3]>>
    IN IF index[swapped] = Absent
       THEN [index EXCEPT ![swapped] = [t \in {id} |-> threshold]]
       ELSE index

\* The SortedTasksIndex after indexing task id under key with its first
\* trigger parameter: a fresh map is written for a key with no entry, but
\* for a key that has one the insert goes into a local copy that is never
\* written back.
InsertIntoSortedIndex(index, key, id, threshold) ==
    IF index[key] = Absent
    THEN [index EXCEPT ![key] = [t \in {id} |-> threshold]]
    ELSE index

\* Mutant: TaskScheduled not deposited, so the event count does not move.
ValidateAndScheduleTaskWithoutEvent(origin, id, task) ==
    IF id = <<>> THEN Fail(origin, "EmptyProvidedId")
    ELSE
        \/ /\ task.triggerParams = <<>>
           /\ Fail(origin, "Panic")
        \/ /\ task.triggerParams # <<>>
           /\ tasks' = [t \in DOMAIN tasks \cup {id} |->
                            IF t = id THEN task ELSE tasks[t]]
           /\ sortedTasksIndex' = InsertIntoSortedIndex(sortedTasksIndex, task.key,
                                                         id, task.triggerParams[1])
           /\ Succeed(origin, 0)
           /\ UNCHANGED <<assetRegistry, priceRegistry, shutdown, taskQueue>>

\* validate_and_schedule_task: EmptyProvidedId for an empty id; else insert
\* into Tasks, index it (trigger_params[0] panics on an empty list and the
\* extrinsic is dropped with everything it wrote), schedule_task (a stub
\* that only returns the id) and deposit TaskScheduled.
\* generate_task_id never returns an empty id, so the EmptyProvidedId branch
\* is dead from schedule_xcmp_task, the only caller.
ValidateAndScheduleTask(origin, id, task) ==
    IF id = <<>> THEN Fail(origin, "EmptyProvidedId")
    ELSE
        \/ /\ task.triggerParams = <<>>
           /\ Fail(origin, "Panic")
        \/ /\ task.triggerParams # <<>>
           /\ tasks' = [t \in DOMAIN tasks \cup {id} |->
                            IF t = id THEN task ELSE tasks[t]]
           /\ sortedTasksIndex' = InsertIntoSortedIndex(sortedTasksIndex, task.key,
                                                         id, task.triggerParams[1])
           /\ Succeed(origin, 1)
           /\ UNCHANGED <<assetRegistry, priceRegistry, shutdown, taskQueue>>

\* schedule_xcmp_task: ensure_signed, generate the id, convert destination
\* and schedule_fee to the latest MultiLocation (BadVersion on failure),
\* build the task and validate_and_schedule_task.  The asset key is not
\* looked up in AssetRegistry.
ScheduleXcmpTask(origin, key, params, destinationOk, scheduleFeeOk) ==
    LET id == GenerateTaskId(blockNumber, extrinsicIndex, eventCount)
        task == [owner |-> origin, key |-> key, triggerParams |-> params,
                 action |-> "XCMP"]
    IN \/ /\ origin = Root
          /\ Fail(origin, "BadOrigin")
       \/ /\ origin # Root
          /\ ~destinationOk \/ ~scheduleFeeOk
          /\ Fail(origin, "BadVersion")
       \/ /\ origin # Root
          /\ destinationOk /\ scheduleFeeOk
          /\ Cardinality(DOMAIN tasks) < MaxTasks
          /\ ValidateAndScheduleTask(origin, id, task)

------------------------------------------------------------------------------
(* The shutdown valve and the block and extrinsic boundaries.             *)

\* pallet_valve::Shutdown::shutdown and ::restart put the flag.
SetShutdown(flag) ==
    /\ shutdown' = flag
    /\ Succeed(Root, 0)
    /\ UNCHANGED <<assetRegistry, priceRegistry, sortedTasksIndex, tasks, taskQueue>>

\* The end of an extrinsic: frame_system deposits ExtrinsicSuccess or
\* ExtrinsicFailed and the next extrinsic gets the next index.
FinishExtrinsic ==
    /\ extrinsicIndex < MaxExtrinsics
    /\ extrinsicIndex' = extrinsicIndex + 1
    /\ eventCount' = eventCount + 1
    /\ UNCHANGED <<storage, blockNumber, lastCall, onInitializeWeight>>

\* A new block: frame_system resets the extrinsic index and the events,
\* then the pallet's on_initialize hook runs.
NewBlock ==
    /\ blockNumber < MaxBlocks
    /\ blockNumber' = blockNumber + 1
    /\ extrinsicIndex' = 0
    /\ eventCount' = 0
    /\ onInitializeWeight' = OnInitialize(shutdown)
    /\ UNCHANGED <<storage, lastCall>>

Next ==
    \/ \E o \in Origins, k \in AssetKeys, owners \in OracleSets :
          InitializeAsset(o, k, owners)
    \/ \E o \in Origins, b \in Batches : UpdateAssetPrices(o, b)
    \/ \E o \in Origins, k \in AssetKeys : DeleteAsset(o, k)
    \/ \E o \in Origins, k \in AssetKeys, p \in TriggerParamInputs,
          d, f \in BOOLEAN :
          ScheduleXcmpTask(o, k, p, d, f)
    \/ \E flag \in BOOLEAN : SetShutdown(flag)
    \/ FinishExtrinsic
    \/ NewBlock

Spec == Init /\ [][Next]_vars

------------------------------------------------------------------------------
(* Properties.                                                             *)

\* Every variable holds a value of its type; index maps and the task store
\* are functions from the ids they hold.
TypeOK ==
    /\ assetRegistry \in [AssetKeys -> (SUBSET Accounts) \cup {Absent}]
    /\ priceRegistry \in [AssetKeys -> PriceData \cup {Absent}]
    /\ sortedTasksIndex \in [AssetKeys -> {Absent} \cup
                              UNION {[D -> TriggerParams] : D \in SUBSET DOMAIN tasks}]
    /\ tasks \in [DOMAIN tasks -> TaskRecords]
    /\ shutdown \in BOOLEAN
    /\ taskQueue \in Seq(Seq(STRING))
    /\ blockNumber \in Nat /\ extrinsicIndex \in Nat /\ eventCount \in Nat
    /\ lastCall \in {Absent} \cup [origin : Origins, result : Results]
    /\ onInitializeWeight \in Nat

\* The price of a key changes only in a call signed by one of that key's
\* oracle providers, whatever else the same batch contains.
OracleAuthorized ==
    [][\A k \in AssetKeys :
          priceRegistry'[k] # priceRegistry[k] =>
             /\ assetRegistry[k] # Absent
             /\ lastCall'.origin \in assetRegistry[k]]_vars

\* No call replaces or removes a stored task: the id generate_task_id
\* derives from (block, extrinsic index, event count) is fresh even for two
\* tasks scheduled in one batched extrinsic, so the unchecked Tasks insert
\* never overwrites.
TaskNeverOverwritten ==
    [][\A id \in DOMAIN tasks : id \in DOMAIN tasks' /\ tasks'[id] = tasks[id]]_vars

\* The numbers a task id field can hold (u32 block numbers and indices).
IdFields == Nat

\* Every stored task's id is the id generate_task_id gives some context
\* that is already past: an earlier block, or this block at a smaller
\* event count.  Since each successful schedule deposits an event and a new
\* block starts after every earlier one, the context generate_task_id reads
\* next is never one whose id is stored: the freshness the unchecked
\* Tasks::insert of validate_and_schedule_task (lib.rs 851) depends on.
IdsIssued ==
    \A id \in DOMAIN tasks :
        \E b \in 1..blockNumber, x \in 0..MaxExtrinsics, e \in IdFields :
            /\ id = GenerateTaskId(b, x, e)
            /\ b < blockNumber \/ e < eventCount

\* Every entry of the sorted index names a stored task of the same asset
\* key, under the task's first trigger parameter (the invariant of spec §3).
IndexedTasksExist ==
    \A k \in AssetKeys : sortedTasksIndex[k] # Absent =>
        \A id \in DOMAIN sortedTasksIndex[k] :
            /\ id \in DOMAIN tasks
            /\ tasks[id].key = k
            /\ sortedTasksIndex[k][id] = tasks[id].triggerParams[1]

\* Every stored task is indexed under its asset key (the atomicity law of
\* spec §8: store entry and index entry together).
TasksIndexed ==
    \A id \in DOMAIN tasks :
        LET k == tasks[id].key
        IN sortedTasksIndex[k] # Absent /\ id \in DOMAIN sortedTasksIndex[k]

\* Every stored task is waiting in the TaskQueue until it runs (spec §4.2:
\* validate_and_schedule_task appends the task to the TaskQueue, the
\* queue the engine drains; schedule_task is where the code would do it).
TasksQueued ==
    \A id \in DOMAIN tasks : \E i \in DOMAIN taskQueue : taskQueue[i] = id

\* Every stored task refers to an asset key present in AssetRegistry
\* (spec §3: the key must exist when the task is created; nothing removes
\* registry entries).
TaskAssetRegistered ==
    \A id \in DOMAIN tasks : assetRegistry[tasks[id].key] # Absent

\* on_initialize returns the weight it consumed (spec §4.3 step 5 and §6:
\* the unused portion is refunded to the block).  Past the commented-out
\* passes of trigger_tasks, the hook reads Shutdown and nothing else, so it
\* consumes one read; it reports trigger_tasks' weight_left instead.
ReportedWeightIsConsumed == onInitializeWeight <= DbReadWeight
=============================================================================
