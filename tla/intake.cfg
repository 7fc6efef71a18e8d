SPECIFICATION Spec
CONSTANTS
  Requests = {q1, q2, q3}
  Starts = {s1}
  Keys = {k1}
  Contents <- Contents1
  MaxConcurrent = 1
  Ttl = 0
  MaxTime = 1
  Faults = {"queue", "tasks", "apiCrash"}
  MaxFaults = 1
SYMMETRY Symmetry
CHECK_DEADLOCK FALSE
INVARIANTS KeyNamesOneExecution LimitKept RetryGetsTheExecution
