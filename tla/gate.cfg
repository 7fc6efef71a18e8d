SPECIFICATION FairSpec
CONSTANTS
  c1 = c1
  c2 = c2
  c3 = c3
  c4 = c4
  c5 = c5
  Kids <- Kids5
  Requests = {q1}
  Offered = {"continue", "block", "fix", "cancel"}
  MaxCycles = 3
  MaxTries = 2
  LongestState = 24
  Events = {"crash", "refused", "cannotStart", "switch", "cancelChild", "race", "overdue"}
  MaxEvents = 1
CHECK_DEADLOCK FALSE
INVARIANTS OneProcess
PROPERTIES OnlyApprovedPublished DecidedOnce GateResolves
