SPECIFICATION Spec
CONSTANTS
  Pods = {p1}
  NoPod = NoPod
  MaxJobs = 1
  MaxFaults = 0
  Kinds = {}
PROPERTIES
  SuccessIsFinal
CHECK_DEADLOCK FALSE
