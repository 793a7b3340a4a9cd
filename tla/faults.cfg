SPECIFICATION Spec
CONSTANTS
  Pods = {p1, p2}
  NoPod = NoPod
  MaxJobs = 1
  MaxFaults = 2
  Kinds = {"apiError", "rpcError", "crash", "kill", "setupFail", "initFail", "edit", "cancel", "delete", "huge"}
SYMMETRY PodSymmetry
INVARIANTS
  TypeOK
  CancelledPodStopped
  AckedReportSticks
  NoFalseSuccess
  EvaluationRunsOnce
  ResultsKept
  NeverForgotten
  StatusCoherent
PROPERTIES
  TimesAreFinal
  LifecycleImplemented
CHECK_DEADLOCK FALSE
