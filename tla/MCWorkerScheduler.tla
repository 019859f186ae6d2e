------------------------- MODULE MCWorkerScheduler -------------------------
EXTENDS WorkerScheduler, TLC

CONSTANTS t1, t2, render

Workers2 == {1, 2}
Utc      == {0}

\* Tasks are never compared.
TaskSymmetry == Permutations(Task)
=============================================================================
