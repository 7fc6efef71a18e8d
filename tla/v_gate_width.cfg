SPECIFICATION Spec
CONSTANTS
  c1 = c1
  c2 = c2
  c3 = c3
  c4 = c4
  c5 = c5
  Kids <- Kids1
  Requests = {}
  Offered = {"continue", "block", "fix"}
  MaxCycles = 1
  MaxTries = 1
  LongestState = 16
  Events = {"overdue"}
  MaxEvents = 0
CHECK_DEADLOCK FALSE
INVARIANT NothingStranded
