SPECIFICATION Spec
CONSTANTS
  Pods = {p1, p2}
  NoPod = NoPod
  MaxJobs = 2
  MaxFaults = 1
  Kinds = {"delete"}
INVARIANTS
  NoFalseSuccess
CHECK_DEADLOCK FALSE
