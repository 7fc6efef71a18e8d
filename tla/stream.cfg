SPECIFICATION StreamSpec
CONSTANTS
  Clients = {"c"}
  Homes = {"api", "worker"}
  MaxOutput = 1
  MaxTries = 2
  MaxEvents = 1
  MaxChunks = 2
  StreamFaults = {"database", "network"}
CHECK_DEADLOCK FALSE
INVARIANTS FaithfulView
PROPERTIES EventLogPromise StreamEnds
