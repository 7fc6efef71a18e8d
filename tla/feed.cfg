SPECIFICATION FeedSpec
CONSTANTS
  c1 = c1
  c2 = c2
  w1 = w1
  w2 = w2
  p1 = p1
  p2 = p2
  t1 = t1
  t2 = t2
  t3 = t3
  r1 = r1
  r2 = r2
  r3 = r3
  Tasks = {t1, t2, t3}
  Providers = {"asana", "jira"}
  Workspaces = {w1, w2}
  Projects = {p1, p2}
  HomeOf <- HomeOf1
  Existing = {p1, p2}
  Conns = {c1, c2}
  ConfigOf <- ConfigOf1
  Connected <- Connected1
  AtFirst <- AtFirst1
  Moves <- Moves1
  ListLimit = 2
  Askers = {"scheduler"}
  Drafting = {t1, t3}
  PageLimit = 3
  MaxPages = 2
  Runs = {1, 2}
  Faults = {}
  MaxEvents = 1
  FeedLimit = 2
  ScopeOrder <- ScopeOrder1
  DefaultRows <- DefaultRows1
CHECK_DEADLOCK FALSE
INVARIANTS ScopesMatchFilter SuggestionStable FeedIsHonest
