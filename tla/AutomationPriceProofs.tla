------------------------ MODULE AutomationPriceProofs ------------------------
(***************************************************************************)
(* Proofs about AutomationPrice, for every value of its constants: type    *)
(* correctness, and that prices are only written by a key's oracle        *)
(* providers.                                                              *)
(***************************************************************************)
EXTENDS AutomationPrice, WellFoundedInduction, TLAPS

------------------------------------------------------------------------------
(* A non-empty set of indices 1..n has a largest element: the entry of a   *)
(* batch that ApplyPrices CHOOSEs exists.  Taken from the well-foundedness *)
(* of < on Nat, applied to the distances n - i.                            *)
LEMMA LargestIndexExists ==
    ASSUME NEW n \in Nat, NEW S \in SUBSET (1..n), S # {}
    PROVE  \E i \in S : \A j \in S : j <= i
<1> DEFINE T == {n - i : i \in S}
<1>1. T \subseteq Nat /\ T # {}
  <2>1. \A i \in S : n - i \in Nat
    BY SMT
  <2> QED
    BY <2>1
<1>2. \E x \in T : \A y \in T : ~(<<y, x>> \in OpToRel(<, Nat))
  BY <1>1, NatLessThanWellFounded, WFMin, Zenon
<1>3. PICK x \in T : \A y \in T : ~(<<y, x>> \in OpToRel(<, Nat))
  BY <1>2, Zenon
<1>4. PICK i \in S : x = n - i
  OBVIOUS
<1>5. \A j \in S : j <= i
  <2> TAKE j \in S
  <2>1. n - j \in T /\ n - j \in Nat /\ x \in Nat
    BY <1>1
  <2>2. ~(<<n - j, x>> \in OpToRel(<, Nat))
    BY <1>3, <2>1, Zenon
  <2>3. ~(n - j < x)
    BY <2>1, <2>2, Zenon DEF OpToRel
  <2> QED
    BY <2>3, <1>4
<1> QED
  BY <1>5

\* The entry ApplyPrices takes for a key named in the batch is an entry of
\* the batch with that key.
LEMMA LastEntryOfKey ==
    ASSUME NEW batch \in Batches, NEW k,
           \E i \in DOMAIN batch : batch[i].key = k
    PROVE  LET last == CHOOSE i \in DOMAIN batch :
                          /\ batch[i].key = k
                          /\ \A j \in DOMAIN batch : batch[j].key = k => j <= i
           IN  last \in DOMAIN batch /\ batch[last].key = k
<1>1. PICK n \in 0..MaxBatch : batch \in [1..n -> BatchEntries]
  BY DEF Batches
<1>2. n \in Nat /\ DOMAIN batch = 1..n
  BY <1>1, ConstantsAssumption
<1> DEFINE S == {i \in DOMAIN batch : batch[i].key = k}
<1>3. S \subseteq 1..n /\ S # {}
  BY <1>2
<1>4. \E i \in S : \A j \in S : j <= i
  BY <1>2, <1>3, LargestIndexExists
<1> QED
  BY <1>4

\* ApplyPrices keeps PriceRegistry a map to PriceData or Absent.
LEMMA ApplyPricesType ==
    ASSUME NEW prices \in [AssetKeys -> PriceData \cup {Absent}],
           NEW batch \in Batches
    PROVE  ApplyPrices(prices, batch) \in [AssetKeys -> PriceData \cup {Absent}]
<1>1. batch \in [DOMAIN batch -> BatchEntries]
  BY DEF Batches
<1>2. ASSUME NEW k \in AssetKeys, \E i \in DOMAIN batch : batch[i].key = k
      PROVE  LET last == CHOOSE i \in DOMAIN batch :
                            /\ batch[i].key = k
                            /\ \A j \in DOMAIN batch : batch[j].key = k => j <= i
             IN [round |-> batch[last].round, nonce |-> 1,
                 amount |-> batch[last].price] \in PriceData
  <2> DEFINE last == CHOOSE i \in DOMAIN batch :
                        /\ batch[i].key = k
                        /\ \A j \in DOMAIN batch : batch[j].key = k => j <= i
  <2>1. last \in DOMAIN batch
    BY <1>2, LastEntryOfKey
  <2>2. batch[last] \in BatchEntries
    BY <1>1, <2>1
  <2> QED
    BY <2>2 DEF PriceData, BatchEntries
<1> QED
  BY <1>2 DEF ApplyPrices

------------------------------------------------------------------------------
(* Type correctness: TypeOK is inductive.                                  *)

\* on_initialize returns a natural number of weight units.
LEMMA OnInitializeNat == \A b \in BOOLEAN : OnInitialize(b) \in Nat
BY ConstantsAssumption, SMT DEF OnInitialize, TriggerTasks, MaxWeight, PerbillAccuracy

LEMMA InitTypeOK == Init => TypeOK
<1> SUFFICES ASSUME Init PROVE TypeOK
  OBVIOUS
<1>1. tasks \in [DOMAIN tasks -> TaskRecords] /\ DOMAIN tasks = {}
  BY DEF Init
<1>2. sortedTasksIndex \in [AssetKeys -> {Absent}]
  BY DEF Init
<1>3. onInitializeWeight \in Nat
  BY OnInitializeNat DEF Init
<1>4. taskQueue \in Seq(Seq(STRING))
  BY DEF Init
<1> QED
  BY <1>1, <1>2, <1>3, <1>4 DEF Init, TypeOK

\* A failing call only records its origin and error.
LEMMA FailTypeOK ==
    ASSUME TypeOK, NEW o \in Origins, NEW e \in Results, Fail(o, e)
    PROVE  TypeOK'
BY DEF Fail, TypeOK, storage, context

\* The bookkeeping of a successful call keeps the context in Nat.
LEMMA SucceedContext ==
    ASSUME TypeOK, NEW o \in Origins, NEW n \in Nat, Succeed(o, n)
    PROVE  /\ blockNumber' \in Nat /\ extrinsicIndex' \in Nat /\ eventCount' \in Nat
           /\ lastCall' \in {Absent} \cup [origin : Origins, result : Results]
           /\ onInitializeWeight' \in Nat
BY DEF Succeed, TypeOK, Results

LEMMA InitializeAssetTypeOK ==
    ASSUME TypeOK, NEW o \in Origins, NEW k \in AssetKeys, NEW owners \in OracleSets,
           InitializeAsset(o, k, owners)
    PROVE  TypeOK'
<1>1. CASE o # Root /\ Fail(o, "BadOrigin")
  BY <1>1, FailTypeOK DEF Results
<1>2. CASE o = Root /\ assetRegistry[k] # Absent /\ Fail(o, "AssetAlreadyInitialized")
  BY <1>2, FailTypeOK DEF Results
<1>3. CASE o = Root /\ assetRegistry[k] = Absent
           /\ assetRegistry' = [assetRegistry EXCEPT ![k] = owners]
           /\ Succeed(o, 1)
           /\ UNCHANGED <<priceRegistry, sortedTasksIndex, tasks, shutdown, taskQueue>>
  <2>1. owners \in SUBSET Accounts
    BY ConstantsAssumption
  <2> QED
    BY <1>3, <2>1, SucceedContext DEF TypeOK
<1> QED
  BY <1>1, <1>2, <1>3 DEF InitializeAsset, CreateNewAsset

LEMMA EntryErrorResult ==
    ASSUME NEW o, NEW entry
    PROVE  EntryError(o, entry) \in Results
BY DEF EntryError, Results

LEMMA UpdateAssetPricesTypeOK ==
    ASSUME TypeOK, NEW o \in Origins, NEW batch \in Batches,
           UpdateAssetPrices(o, batch)
    PROVE  TypeOK'
<1> DEFINE failing == {i \in DOMAIN batch : EntryError(o, batch[i]) # "Ok"}
           first == CHOOSE i \in failing : \A j \in failing : i <= j
<1>1. CASE o = Root /\ Fail(o, "BadOrigin")
  BY <1>1, FailTypeOK DEF Results
<1>2. CASE o # Root /\ failing # {} /\ Fail(o, EntryError(o, batch[first]))
  BY <1>2, FailTypeOK, EntryErrorResult
<1>3. CASE o # Root /\ failing = {}
           /\ priceRegistry' = ApplyPrices(priceRegistry, batch)
           /\ Succeed(o, 0)
           /\ UNCHANGED <<assetRegistry, sortedTasksIndex, tasks, shutdown, taskQueue>>
  BY <1>3, ApplyPricesType, SucceedContext DEF TypeOK
<1> QED
  BY <1>1, <1>2, <1>3 DEF UpdateAssetPrices

LEMMA DeleteAssetTypeOK ==
    ASSUME TypeOK, NEW o \in Origins, NEW k \in AssetKeys, DeleteAsset(o, k)
    PROVE  TypeOK'
<1>1. CASE Fail(o, "BadOrigin") \/ Fail(o, "AssetNotSupported")
  BY <1>1, FailTypeOK DEF Results
<1>2. CASE Succeed(o, 1) /\ UNCHANGED storage
  BY <1>2, SucceedContext, SMTT(30) DEF TypeOK, storage
<1> QED
  BY <1>1, <1>2 DEF DeleteAsset

\* Indexing a task keeps SortedTasksIndex a map into any set of entries that
\* holds the fresh one-task map written for a key without an entry.
LEMMA InsertIntoSortedIndexType ==
    ASSUME NEW M, NEW index \in [AssetKeys -> M], NEW key, NEW id, NEW v,
           [t \in {id} |-> v] \in M
    PROVE  InsertIntoSortedIndex(index, key, id, v) \in [AssetKeys -> M]
BY DEF InsertIntoSortedIndex

\* Scheduling adds one task and at most one index map over its id.
LEMMA ScheduleXcmpTaskTypeOK ==
    ASSUME TypeOK, NEW o \in Origins, NEW k \in AssetKeys,
           NEW p \in TriggerParamInputs, NEW d \in BOOLEAN, NEW f \in BOOLEAN,
           ScheduleXcmpTask(o, k, p, d, f)
    PROVE  TypeOK'
<1> DEFINE id == GenerateTaskId(blockNumber, extrinsicIndex, eventCount)
           task == [owner |-> o, key |-> k, triggerParams |-> p, action |-> "XCMP"]
<1>1. CASE Fail(o, "BadOrigin") \/ Fail(o, "BadVersion")
           \/ Fail(o, "EmptyProvidedId") \/ Fail(o, "Panic")
  BY <1>1, FailTypeOK DEF Results
<1>2. CASE /\ o # Root /\ id # <<>> /\ p # <<>>
           /\ tasks' = [t \in DOMAIN tasks \cup {id} |->
                            IF t = id THEN task ELSE tasks[t]]
           /\ sortedTasksIndex' = InsertIntoSortedIndex(sortedTasksIndex, k, id, p[1])
           /\ Succeed(o, 1)
           /\ UNCHANGED <<assetRegistry, priceRegistry, shutdown, taskQueue>>
  <2>1. PICK v \in TriggerParams : p = <<v>>
    BY <1>2 DEF TriggerParamInputs
  <2>2. task \in TaskRecords
    BY <2>1, ConstantsAssumption, <1>2 DEF TaskRecords, Origins
  <2>3. tasks' \in [DOMAIN tasks' -> TaskRecords]
    BY <1>2, <2>2 DEF TypeOK
  <2>4. DOMAIN tasks' = DOMAIN tasks \cup {id}
    BY <1>2
  <2> DEFINE IndexMaps(D) == {Absent} \cup UNION {[E -> TriggerParams] : E \in SUBSET D}
  <2>5. [t \in {id} |-> v] \in IndexMaps(DOMAIN tasks')
    BY <2>4
  <2>6. \A kk \in AssetKeys : sortedTasksIndex[kk] \in IndexMaps(DOMAIN tasks')
    BY <2>4 DEF TypeOK
  <2>7. sortedTasksIndex \in [AssetKeys -> IndexMaps(DOMAIN tasks')]
    BY <2>6 DEF TypeOK
  <2>8. sortedTasksIndex' \in [AssetKeys -> IndexMaps(DOMAIN tasks')]
    BY <1>2, <2>1, <2>5, <2>7, InsertIntoSortedIndexType
  <2> QED
    BY <1>2, <2>3, <2>8, SucceedContext DEF TypeOK
<1> QED
  BY <1>1, <1>2 DEF ScheduleXcmpTask, ValidateAndScheduleTask

LEMMA NextTypeOK == TypeOK /\ [Next]_vars => TypeOK'
<1> SUFFICES ASSUME TypeOK, [Next]_vars PROVE TypeOK'
  OBVIOUS
<1>1. CASE \E o \in Origins, k \in AssetKeys, owners \in OracleSets :
              InitializeAsset(o, k, owners)
  BY <1>1, InitializeAssetTypeOK
<1>2. CASE \E o \in Origins, b \in Batches : UpdateAssetPrices(o, b)
  BY <1>2, UpdateAssetPricesTypeOK
<1>3. CASE \E o \in Origins, k \in AssetKeys : DeleteAsset(o, k)
  BY <1>3, DeleteAssetTypeOK
<1>4. CASE \E o \in Origins, k \in AssetKeys, p \in TriggerParamInputs,
              d, f \in BOOLEAN : ScheduleXcmpTask(o, k, p, d, f)
  BY <1>4, ScheduleXcmpTaskTypeOK
<1>5. CASE \E flag \in BOOLEAN : SetShutdown(flag)
  BY <1>5 DEF SetShutdown, Succeed, TypeOK, Origins, Results
<1>6. CASE FinishExtrinsic
  BY <1>6 DEF FinishExtrinsic, TypeOK, storage
<1>7. CASE NewBlock
  BY <1>7, OnInitializeNat DEF NewBlock, TypeOK, storage
<1>8. CASE UNCHANGED vars
  BY <1>8 DEF vars, storage, context, TypeOK
<1> QED
  BY <1>1, <1>2, <1>3, <1>4, <1>5, <1>6, <1>7, <1>8 DEF Next

\* Every reachable state is well typed.
THEOREM TypeCorrect == Spec => []TypeOK
BY InitTypeOK, NextTypeOK, PTL DEF Spec

------------------------------------------------------------------------------
(* Prices are written only by a key's oracle providers.                    *)

PriceWriteAuthorized ==
    \A k \in AssetKeys :
        priceRegistry'[k] # priceRegistry[k] =>
           /\ assetRegistry[k] # Absent
           /\ lastCall'.origin \in assetRegistry[k]

\* A successful batch changes only keys named by one of its entries, and
\* every entry passed the registry and oracle checks.
LEMMA UpdateAssetPricesAuthorized ==
    ASSUME NEW o, NEW batch, UpdateAssetPrices(o, batch)
    PROVE  PriceWriteAuthorized
<1> DEFINE failing == {i \in DOMAIN batch : EntryError(o, batch[i]) # "Ok"}
<1>1. CASE UNCHANGED priceRegistry
  BY <1>1 DEF PriceWriteAuthorized
<1>2. CASE /\ o # Root /\ failing = {}
           /\ priceRegistry' = ApplyPrices(priceRegistry, batch)
           /\ Succeed(o, 0)
  <2> SUFFICES ASSUME NEW k \in AssetKeys, priceRegistry'[k] # priceRegistry[k]
               PROVE  assetRegistry[k] # Absent /\ lastCall'.origin \in assetRegistry[k]
    BY DEF PriceWriteAuthorized
  <2>1. PICK i \in DOMAIN batch : batch[i].key = k
    BY <1>2 DEF ApplyPrices
  <2>2. EntryError(o, batch[i]) = "Ok"
    BY <1>2
  <2>3. assetRegistry[k] # Absent /\ o \in assetRegistry[k]
    BY <2>1, <2>2 DEF EntryError
  <2> QED
    BY <2>3, <1>2 DEF Succeed
<1> QED
  BY <1>1, <1>2 DEF UpdateAssetPrices, Fail, storage

LEMMA NextPriceWriteAuthorized == [Next]_vars => PriceWriteAuthorized
<1> SUFFICES ASSUME [Next]_vars PROVE PriceWriteAuthorized
  OBVIOUS
<1>1. CASE \E o, b : UpdateAssetPrices(o, b)
  BY <1>1, UpdateAssetPricesAuthorized
<1>2. UNCHANGED priceRegistry => PriceWriteAuthorized
  BY DEF PriceWriteAuthorized
<1>3. ASSUME NEW o, NEW k, NEW owners, InitializeAsset(o, k, owners)
      PROVE  UNCHANGED priceRegistry
  BY <1>3 DEF InitializeAsset, CreateNewAsset, Fail, storage
<1>4. ASSUME NEW o, NEW k, DeleteAsset(o, k) PROVE UNCHANGED priceRegistry
  BY <1>4 DEF DeleteAsset, Fail, storage
<1>5. ASSUME NEW o, NEW k, NEW p, NEW d, NEW f, ScheduleXcmpTask(o, k, p, d, f)
      PROVE  UNCHANGED priceRegistry
  BY <1>5 DEF ScheduleXcmpTask, ValidateAndScheduleTask, Fail, storage
<1>6. ASSUME NEW flag, SetShutdown(flag) PROVE UNCHANGED priceRegistry
  BY <1>6 DEF SetShutdown
<1>7. FinishExtrinsic \/ NewBlock \/ UNCHANGED vars => UNCHANGED priceRegistry
  BY DEF FinishExtrinsic, NewBlock, vars, storage
<1> QED
  BY <1>1, <1>2, <1>3, <1>4, <1>5, <1>6, <1>7 DEF Next

\* The price of a key changes only in a call signed by one of its oracle
\* providers.
THEOREM OnlyOraclesWritePrices == Spec => OracleAuthorized
<1>1. [Next]_vars => [PriceWriteAuthorized]_vars
  BY NextPriceWriteAuthorized
<1> QED
  BY <1>1, PTL DEF Spec, OracleAuthorized, PriceWriteAuthorized
=============================================================================
