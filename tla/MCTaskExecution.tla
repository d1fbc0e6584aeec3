--------------------------- MODULE MCTaskExecution ---------------------------
EXTENDS TaskExecution, TLC

CONSTANTS t1, t2, t3

MCTaskIds == {t1, t2, t3}
=============================================================================
