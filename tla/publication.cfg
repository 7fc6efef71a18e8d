SPECIFICATION Spec
CONSTANTS
  Execs = {1, 2}
  ModesOf <- ModesOf1
  Configs <- Configs1
  FirstConfigs <- FirstConfigs1
  Slots = 2
  MaxBranches = 2
  RetryCount = 2
  MaxAttempts = 2
  Faults = {"git", "github", "reply", "database", "profile", "settings", "queue", "crash"}
  MaxEvents = 1
CHECK_DEADLOCK FALSE
INVARIANTS OnePullRequestEach OwnChangesOnly RowTellsPullRequest CheckedCode
PROPERTIES PublicationEnds
