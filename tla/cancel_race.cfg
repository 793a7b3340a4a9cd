SPECIFICATION Spec
CONSTANTS
  Pods = {p1}
  NoPod = NoPod
  MaxJobs = 1
  MaxFaults = 1
  Kinds = {"cancel"}
PROPERTIES
  CancellationHonoured
CHECK_DEADLOCK FALSE
