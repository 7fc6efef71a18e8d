SPECIFICATION FairSpec
CONSTANTS
  Execs = {e1, e2}
  Garbage = garbage
  Stamps = {0}
  MaxAttempts = 2
  MaxEntries = 3
  Faults = {"crash", "stop", "refused", "lost"}
  MaxFaults = 2
CHECK_DEADLOCK FALSE
PROPERTIES DeliveryPromise Drains
