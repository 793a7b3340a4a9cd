SPECIFICATION FairSpec
CONSTANTS
  Pods = {p1, p2}
  NoPod = NoPod
  MaxJobs = 1
  MaxFaults = 1
  Kinds = {"apiError", "evict"}
PROPERTIES
  EventuallySettles
CHECK_DEADLOCK FALSE
