CONSTANTS
  NumWorkers = 3
  MaxOps = 4
SPECIFICATION FairSpec
INVARIANTS TypeOK NoLostWakeup
PROPERTIES OrderedOnce WaitedAreTaken EveryOperationRuns CloseEnds
\* The pool is closed for good.
CHECK_DEADLOCK FALSE
