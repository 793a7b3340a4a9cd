SPECIFICATION FairSpec
CONSTANTS
  Pods = {p1}
  NoPod = NoPod
  MaxJobs = 1
  MaxFaults = 1
  Kinds = {"rpcError", "crash", "kill", "setupFail", "edit", "cancel", "delete", "huge"}
PROPERTIES
  EventuallySettles
  CompletionIsStamped
  DeletedJobGoes
CHECK_DEADLOCK FALSE
