SPECIFICATION Spec
CONSTANTS
  c1 = c1
  c2 = c2
  t1 = t1
  t2 = t2
  t3 = t3
  w1 = w1
  w2 = w2
  p1 = p1
  p2 = p2
  Tasks = {t1, t2, t3}
  Providers = {"asana", "jira"}
  Workspaces = {w1, w2}
  Projects = {p1, p2}
  HomeOf <- HomeOf1
  Existing = {p1}
  Conns = {c1, c2}
  ConfigOf <- ConfigOf1
  Connected <- Connected1
  AtFirst <- AtFirst1
  Moves <- Moves1
  ListLimit = 2
  Askers = {"browser", "scheduler"}
  Drafting = {t1, t3}
  PageLimit = 1
  MaxPages = 2
  Runs = {1, 2}
  Faults = {"provider", "missing", "database", "network", "crash"}
  MaxEvents = 1
CHECK_DEADLOCK FALSE
INVARIANTS DraftsFollowRows
PROPERTIES UntouchedTasksKept CompletedRunMirrors PollingEnds
