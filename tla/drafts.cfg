SPECIFICATION InboxSpec
CONSTANTS
  t1 = t1
  t2 = t2
  ManualTasks = {t1}
  SyncedTasks = {t2}
  Rules = {1, 2}
  ScopesOf <- ScopesOf1
  TitleOf <- TitleOf1
  RuleDtos <- RuleDtos1
  Patches <- Patches1
  Editors = {1, 2}
  StateJobs = {1, 2}
  Starters = {1, 2}
  MaxRows = 3
  MaxVersions = 2
  MaxChanges = 3
  Faults = {"database", "queue", "unstarted"}
  MaxFaults = 1
CHECK_DEADLOCK FALSE
INVARIANTS DraftsFollowRules StartedOnce WorkflowFollows DraftsOffered HistoryAgrees
PROPERTIES Quiesces
