CONSTANTS
    Accounts = {alice, bob}
    Root = Root
    Absent = Absent
    chain = chain
    exchange = exchange
    usdc = usdc
    eth = eth
    AssetKeys <- MCAssetKeys
    OracleSets = {{alice}}
    Prices = {1800}
    Rounds = {1}
    TriggerParams = {1800}
    MaxBatch = 2
    MaxBlocks = 2
    MaxExtrinsics = 1
    MaxEvents = 3
    MaxTasks = 2
    DbReadWeight = 1
    MaxBlockWeight = 4
    MaxWeightPercentage = 500000000
SPECIFICATION Spec
INVARIANT TaskAssetRegistered
VIEW View
