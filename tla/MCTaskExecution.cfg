CONSTANTS
    t1 = t1
    t2 = t2
    t3 = t3
    TaskIds <- MCTaskIds
    Absent = Absent
    MaxQueue = 3
    DbReadWeight = 2
    DbWriteWeight = 3
    EmitEventWeight = 1
    NativeTransferWeight = 12
    XcmpTaskWeight = 1
    MaxWeight = 20
SPECIFICATION Spec
INVARIANT TypeOK RunTasksReturn BudgetOverrunStops PassMakesProgress
PROPERTY FifoExecution
