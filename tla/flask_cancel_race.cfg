SPECIFICATION EndingSpec
CONSTANTS
  Tasks = {t1}
  PrepareFails = FALSE
PROPERTIES
  CancelledTaskSettles
CHECK_DEADLOCK FALSE
