SPECIFICATION Spec
CONSTANTS
  q1 = q1
  q2 = q2
  q3 = q3
  q4 = q4
  n1 = n1
  n2 = n2
  p1 = p1
  none = none
  strict = strict
  Requests = {q1, q2, q3, q4}
  First = first
  Names <- Names1
  FirstName = n1
  GitHub <- GitHub1
  Paths = {p1}
  PathOf <- PathOf1
  Profiles = {none, strict}
  NoProfile = none
  DefaultDtos <- DefaultDtos1
  Drivers = {"postgres", "sqlite"}
  Updates <- Updates1
  Faults = {"git", "timeout", "database", "reply", "files", "crash"}
  MaxFaults = 1
SYMMETRY Alike
CHECK_DEADLOCK FALSE
INVARIANTS RowHasDirectory NoLostDirectory DefaultTakesEffect SyncHasProvider
