SPECIFICATION FairSpec
CONSTANTS
  Tasks = {t1, t2}
  PrepareFails = TRUE
INVARIANTS
  TypeOK
  EndedMeansStopped
PROPERTIES
  FinalAnswerStands
  CancelStopsProcess
  SuccessIsNoticed
CHECK_DEADLOCK FALSE
