SPECIFICATION Spec
CONSTANTS
  Executions = {e1}
  MaxRuns = 2
  MaxAttempts = 2
  MaxConcurrent = 1
  Faults = {"enqueueLost"}
  Alone = {}
  MaxFaults = 1
CHECK_DEADLOCK FALSE
INVARIANTS AtMostOneProcess
