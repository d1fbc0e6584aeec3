# TLA+ models of the automation-price pallet

This directory holds TLA+ models of `src/pallets/automation-price/src/lib.rs`:
- the price-triggered task scheduler;
- its TLC configurations;
- TLAPS proofs.

`PROJECT.json` lists:
- the components;
- the runs and the mutants that show each property can fail;
- the map from every definition to the source lines it translates;
- the findings, the hazards and the theorems.

## The system

The pallet has four parts that share on-chain storage. The references below are lib.rs line numbers.

| Part | Code | State |
|---|---|---|
| Asset and price registry | `initialize_asset` (436), `create_new_asset` (690), `update_asset_prices` (464), `delete_asset` (524) | `AssetRegistry` (key → oracle providers), `PriceRegistry` (key → `PriceData`) |
| Task store and sorted index | `schedule_xcmp_task` (550), `generate_task_id` (615), `validate_and_schedule_task` (845), `schedule_task` (817, a stub) | `Tasks` (id → Task), `SortedTasksIndex` (key → id → first trigger param) |
| Scheduler engine | `on_initialize` (409), `trigger_tasks` (637), `run_tasks` (763), `run_native_transfer_task` (741) | `TaskQueue`, the block's weight |
| Shutdown valve | `pallet_valve::Shutdown` (888) | `Shutdown` |

A key is `(chain, exchange, asset1, asset2)`.

The parts interact in four places:
- **Task ids come from block context.** Calls run one after another inside the extrinsics of a block. `generate_task_id` formats the frame_system triple (block number, extrinsic index, event count) as the task id, so a task's id depends on the events the calls before it deposited.
- **Rollback.** Every dispatchable is `#[transactional]`. An error undoes its writes, and a panic drops the extrinsic.
- **The hook is gated by the valve.** Once per block `on_initialize` reads the valve and calls `trigger_tasks`. The part of `trigger_tasks` that reads `TaskQueue` and hands it to `run_tasks` is commented out (676-686). So is the asset reset pass, and `schedule_task` never appends to the queue. `run_tasks` is live code, but nothing in the live code feeds it.
- **Execution.** `run_tasks` executes ids in queue order and charges each task's weight. It stops when the weight left cannot pay for another iteration and returns the ids it did not reach.

## Modules

- **`TaskIdFormat`**: `GenerateTaskId`, the id as the character sequence `format!("{}-{}-{}")` produces. It uses the recursive function `DecimalDigits` for the decimal digits.
  - **`MCTaskIdFormat`** adds a reference parser (`ParseTaskId`) and checks that the formatting is injective.
- **`AutomationPrice`**: the pallet's calls and the block hook, as the code has them.
  - **State:**
    - the four storage maps and the `Shutdown` flag;
    - frame_system's `blockNumber`, `extrinsicIndex` and `eventCount`;
    - `lastCall`, the origin and result of the latest call, which the action properties need;
    - `onInitializeWeight`;
    - `taskQueue`, the `TaskQueue` storage value. It starts empty and no live code writes it. Its `(AssetName, id)` pairs are reduced to ids.
  - **Actions:**
    - one per dispatchable (`InitializeAsset`, `UpdateAssetPrices`, `DeleteAsset`, `ScheduleXcmpTask`);
    - the valve (`SetShutdown`);
    - the extrinsic boundary (`FinishExtrinsic`);
    - the block boundary with `on_initialize` (`NewBlock`).
  - **How a call is modelled:**
    - A call is a single step, because `#[transactional]` makes it all-or-nothing.
    - `Fail` is an error or panic. It changes only `lastCall`.
    - `Succeed(origin, n)` counts the call's `n` events.
  - **Helpers:**
    - `EntryError` and `ApplyPrices` model the loop of `update_asset_prices`. The first failing entry decides the error, and the last entry of a key wins.
    - `InsertIntoSortedIndex` models the index update of `validate_and_schedule_task`, including the write-back that is missing for a key that already has a map.
  - **Data abstractions:**
    - The XCMP payload, `decimal`, `last_update`, the registry `round` and the events' contents are never read by the pallet, so they are left out.
    - Vectors of the price batch are whole entries, so unequal lengths are not generated.
- **`TaskExecution`**: `run_tasks` one loop iteration per step (`RunTask`), and its return (`ReturnRemaining`).
  - **The driver** is the per-block pass (`TriggerTasksPass`, `IdleBlock`). It is taken from spec §4.3 and from the commented-out lines 676-686: after `trigger_tasks`' budget check, the queue read and write are charged, and a non-empty queue is run with the rest of the budget. What `run_tasks` returns becomes the next queue.
  - **State:**
    - `tasks` (id → `XCMP`, `NativeTransfer` or `Absent`);
    - the call's `taskIds`, `consumed`, `weightLeft` and `stopped`;
    - the queue;
    - two measures, `spent` (the weight this run's tasks took) and `budget`.
    - `reported`, the weight `trigger_tasks` returns and `on_initialize` hands to the runtime (lib.rs 687, 418).
  - **Transfers:** a native transfer's success or failure only chooses the event, so it is not a branch of the model.
- **`QueueExecution`**: the abstract scheduler engine of spec §4.3 and §4.4. Its state is the store and the pending queue. It has one action, `RunHead`: the head of the queue is run and leaves the store. Only its safety part (`SafetySpec`) is stated: the spec's "eventually run" has nothing in the live code to stand on (see Fairness). It maps no source line; it is what the engine promises.
  - **The refinement.** `TaskExecution` instantiates it as `Abstract == INSTANCE QueueExecution WITH queue <- PendingQueue`. Inside `run_tasks`, `PendingQueue` is the ids past `consumed_task_index`, which is what `split_off` would return at that point. Between blocks it is the `TaskQueue`. `RunTask` maps to `RunHead`; `ReturnRemaining`, `TriggerTasksPass` and `IdleBlock` leave the pending queue and the store alone, so they map to stutters. The property `FifoExecution == Abstract!SafetySpec` is checked by TLC and proved (`ImplementsFifoSafety`).

## Runs

| Run | Shows |
|---|---|
| `task_id_roundtrip` (pass) | `IdParsesBack`: every id of fields 0..12 parses back to its triple, so ids of distinct triples differ. The fields cover one, two and more digits. |
| `pallet_calls` (pass, ≈152k states) | These properties hold over two blocks, two asset keys, two accounts (one an oracle) and batches of up to two entries. |
| `index_write_back` (violation) | `TasksIndexed`: after two `ScheduleXcmpTask` calls on one key (no `InitializeAsset` is needed, see `asset_registration`), the second task is in `Tasks` but not in `SortedTasksIndex`. This is a code bug. |
| `asset_registration` (violation) | `TaskAssetRegistered`: a task is stored for a key that was never initialized. Spec §3 requires the key to exist. |
| `run_tasks_queue` (pass, 5505 states) | `RunTasksReturn`: the returned queue is exactly the ids not reached, and every id run is gone from `Tasks`. `BudgetOverrunStops`: when the pass has charged more than its budget, it overstepped by at most the weight of one action (`LargestActionWeight`), and the loop has stopped. `PassMakesProgress`: once a pass has returned, it consumed at least one id, and the queue it put back is shorter than the one it took. `FifoExecution`: every step of the pass is a step of `QueueExecution!SafetySpec` or a stutter. |
| `run_tasks_budget` (violation) | `WithinBudget`: a native transfer costing 17 runs with a budget of 15. Spec §4.3 says the engine never oversteps its budget. |
| `reported_weight` (violation) | `ReportedWeightIsConsumed` (on `MCAutomationPrice`): already in the first block `on_initialize` reports 2 (the whole task budget) while it only read `Shutdown` (1). `trigger_tasks` returns the weight it did not use (687), which with its passes commented out is all of it; spec §4.3 step 5 and §6 say the hook returns the weight it consumed. This is a code bug. |
| `task_queue` (violation) | `TasksQueued`: a task stored by `schedule_xcmp_task` is not in `TaskQueue`. `schedule_task` (817-840) only returns the id; spec §4.2 says scheduling appends to the queue. So no scheduled task is ever run. |

The properties of `pallet_calls` are:
- `OracleAuthorized`: a price changes only in a call from that key's oracle.
- `TaskNeverOverwritten`: stored tasks are never replaced. This holds even for two schedules in one extrinsic, because the event count separates their ids.
- `IndexedTasksExist`: every index entry names a stored task of that key with its first trigger parameter.
- `IdsIssued`: every stored id is `generate_task_id` of a context (block, extrinsic index, event count) that is already past: an earlier block, or an earlier event of this block. This is the freshness fact the proofs need. `IdFields`, the numbers an id field may hold, is `Nat` in the module; the cfg overrides it with `MCIdFields == 0..9` so that TLC can enumerate the witnesses. The mutant that stores a task without counting its event breaks it.

In `run_tasks_queue`, `PassMakesProgress` holds even though a native transfer (17) costs more than a block's budget (15): such a task still runs, alone, in its pass.

Each property of a passing run has a mutant in `PROJECT.json`. Examples:
- the oracle check dropped;
- ids without the event count;
- `split_off` one place early;
- the budget checked before the task runs;
- `Tasks::remove` only for native transfers (caught by `FifoExecution`).

TLC finds each mutant's property violated.

**Bounds.**
- `MCAutomationPrice`:
  - `MaxExtrinsics = 1` gives two extrinsics per block, and `MaxBatch = 2` lets one batch mix a good and a bad entry, or two entries of one key. The id hazard needs two schedules in one extrinsic, and the per-entry oracle check needs a batch with an entry the caller may not write after one it may; both happen within these bounds.
  - `MaxTasks = 2` is enough for the second task on one key.
  - `MCIdFields == 0..9` covers every block number, extrinsic index and event count these bounds reach.
  - The `VIEW` leaves out `lastCall` and `onInitializeWeight`, which no action reads. Each is fixed by the step into the state, so the view loses no behaviour of the storage.
- `MCTaskExecution`:
  - three ids, queues of up to three ids with repeats (`run_tasks` takes any `Vec`), and every store over them;
  - weights chosen so that a break happens mid-queue, after the last task, and on a task that alone exceeds the budget.

**Fairness.** None is assumed, and no liveness property is stated. The live `on_initialize` never calls `run_tasks` (the task pass of `trigger_tasks`, 677-685, is commented out), and the valve can hold the hook off for any number of blocks, so nothing in the code makes a pass happen; `TaskExecution` only says what a pass does once it runs. `AutomationPrice` states no liveness either: calls are user submissions, and none has to happen.

## Proofs

`AutomationPriceProofs` is checked by `tlapm` for every value of the constants. It assumes `ConstantsAssumption`:
- `Root` is not an account;
- oracle sets are sets of accounts;
- numeric constants are naturals;
- `MaxWeightPercentage` is at most `PerbillAccuracy` (10^9, the Perbill denominator). The literal sits behind that name so that it is expanded in one arithmetic lemma only.

| Theorem | Statement | Argument |
|---|---|---|
| `TypeCorrect` | `Spec => []TypeOK` | One lemma per action; `TypeOK` is inductive as it stands. |
| `OnlyOraclesWritePrices` | `Spec => OracleAuthorized` | Only `UpdateAssetPrices` changes prices, and it does so only when every entry passed `EntryError`. |

Notes on the proofs:
- **`TypeCorrect`:** the index is typed as maps over ids of `Tasks`, which is what makes an index entry point into the store. The step for `ApplyPrices` rests on `LargestIndexExists`, that a non-empty set of indices has a largest element (from well-founded induction on naturals). That element is the `CHOOSE` of the last entry of a key.
- **`OnlyOraclesWritePrices`:** its argument needs `TypeOK` for the registry's shape.

`TaskExecutionProofs` is checked by `tlapm` under `WeightsAssumption` (weights and `MaxQueue` are naturals, `Absent` is no action kind). `OverrunStops` also assumes `RunAnotherTaskWeight > 0`: one iteration costs `emit_event` plus one write and one read, which are positive in any runtime. If it were zero, `run_tasks` would never break on budget, and the theorem would be false.

| Theorem | Statement | Argument |
|---|---|---|
| `TypeCorrect` | `Spec => []TypeOK` | `TypeOK` is inductive. `RemainingType` shows that what `run_tasks` returns is a sequence of ids (`SubSeqProperties`). |
| `ReturnCorrect` | `Spec => []RunTasksReturn` | `RunTasksReturn` speaks only of the idle phase, so it is not inductive. It is strengthened by `ConsumedRemoved`: inside `run_tasks`, every id consumed so far has already left `Tasks`. `IInv == TypeOK /\ ConsumedRemoved /\ RunTasksReturn` holds initially and is preserved by each action. |
| `OverrunStops` | `RunAnotherTaskWeight > 0 => (Spec => []BudgetOverrunStops)` | The invariant is `OInv == TypeOK /\ ChargeAccounted /\ BudgetOverrunStops`. `ChargeAccounted` says that, until the budget is overstepped, `spent + weight_left = budget`: every charge comes off `weight_left`. A task whose weight exceeds `weight_left` therefore oversteps by less than its own weight (`ActionWeightBound`), and it leaves `weight_left` at zero. Zero is below the cost of another iteration, so the loop breaks. |
| `ProgressEachPass` | `Spec => []PassMakesProgress` | The invariant is `PInv == IInv /\ PassStarted /\ PassConsumed`. `PassStarted` says that inside `run_tasks` the ids are not empty, and a loop that has broken has consumed an id: the budget is tested only after a task ran. `PassConsumed` carries the same fact to the idle phase. With `RunTasksReturn`, the queue put back has `Len(ids) - consumed` ids (`RemainingLen`). |
| `ImplementsFifoSafety` | `Spec => FifoExecution` (`Abstract!SafetySpec`) | Initial states map to initial states (`InitRefines`). Under `IInv`, a `RunTask` step is a `RunHead` step of the pending queue (`HeadTailOfSubSeq`), and every other step is a stutter (`StepRefines`). |

`TaskIdProofs` proves facts about the id format. It is kept apart from the pallet model so that the sequence reasoning runs without the pallet's constants.
- `SplitAtSeparator`: a word over `S`, a separator outside `S`, and a rest can be split again in one way only. The proof compares the two words at the first position past the shorter prefix, where one has the separator and the other a character of `S`.
- `ThreeFieldRegroup` and `ThreeFieldSplit`: three fields joined by two separators are equal only field by field. The first field is split off, then the second.
- `TaskIdInjectiveFromDecimal`: **if** `DecimalNotation` holds (each number is written with digits only, and different numbers differently), then `GenerateTaskId` is injective.

`DecimalNotation` is a hypothesis, not a theorem. Proving it is an induction over the recursive function `DecimalDigits`, and the provers cannot instantiate the library's induction rules. They cannot even instantiate `RecursiveFcnOfNat`, which would give the defining equation of `DecimalDigits`; both rules take an operator parameter. `task_id_roundtrip` checks injectivity on fields 0..12.

`TaskStoreProofs` proves the task-store properties under `ConstantsAssumption`. The last two theorems also assume `DecimalNotation`.

| Theorem | Statement | Argument |
|---|---|---|
| `IdsAreIssued` | `Spec => []IdsIssued` | `IdsIssued` alone is not inductive. A step must not move the context backwards or out of range, so the invariant is `IdInv == TypeOK /\ ContextBound /\ IdsIssued`. `ContextBound` says the block number is at least 1 and the extrinsic index at most `MaxExtrinsics`. `StepKinds` sorts every step into three kinds: a step that keeps the store and only raises the event count, a new block, or a successful schedule. The new task's id uses the current event count, which the step then raises. |
| `IndexPointsToTasks` | `DecimalNotation => (Spec => []IndexedTasksExist)` | The invariant is `IdInv /\ IndexedTasksExist`. A schedule inserts under a fresh id: the current context is past no context of a stored id, so by injectivity its id is not stored (`FreshId`). Entries of other ids therefore keep their tasks. |
| `NoTaskOverwritten` | `DecimalNotation => (Spec => TaskNeverOverwritten)` | This is an action property. Under `IdInv`, every step keeps every stored task (`NextTasksKept`), and again the id inserted is fresh. |
| `IndexEntryLost` | `DecimalNotation => (Spec => [][ScheduleOnIndexedKeyUnindexed]_vars)` | This theorem is about the bug that `index_write_back` shows. Every successful schedule on a key that already has an index entry stores a task that the index does not hold, so `TasksIndexed` fails after the step. The index is left as it was (the insert goes into a copy that is never written back). The new id is fresh (`FreshId`), and `TypeOK` keeps every index map over stored ids. So the bug is not an artefact of the small instance: it bites on every second schedule of a key. TLC also checked the action property on the `pallet_calls` instance. |

**Only model-checked:**
- `IdParsesBack`, and with it `DecimalNotation` on small numbers, as explained above.
- The violations (`TasksIndexed`, `TaskAssetRegistered`, `WithinBudget`, `ReportedWeightIsConsumed`, `TasksQueued`): TLC exhibits each by a trace; `IndexEntryLost` proves the first for every instance.

No liveness is stated (see Fairness), so none is left to TLC.

## Not modelled

- **`delete_asset_tasks` and the periodic asset reset.** Only commented-out code calls them (541, and the reset pass of `trigger_tasks`). `delete_asset_tasks` filters `TaskQueue` and `ScheduledTasks`, which no live code writes. On every reachable state it would act on empty storage, so a model of it would check nothing about the code.
- **`AccountTasks` and `ScheduledTasks`.** They are never written.
- **Fees.** They are commented out.
- **The node service (`src/node/src/service.rs`).** It is wiring that builds the client and calls the runtime once per block.

## Plan for later work

1. A proof of `DecimalNotation` from `DecimalDigits`, once an induction over the recursive function is within the provers' reach.
2. Unequal vector lengths in `update_asset_prices` (482), as batches of separate vectors.
