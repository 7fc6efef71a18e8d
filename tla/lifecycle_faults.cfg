SPECIFICATION FairSpec
CONSTANTS
  Executions = {e1}
  MaxRuns = 4
  MaxAttempts = 2
  MaxConcurrent = 1
  Faults = {"enqueueRefused", "workerCrash", "workerStop", "apiCrash", "deafExit", "dbError"}
  Alone = {"enqueueRefused"}
  MaxFaults = 2
CHECK_DEADLOCK FALSE
INVARIANTS TypeOK ListenerIsEntry OneOwner OnePullRequest
PROPERTIES EverySettles CancelStopsProcess
