SPECIFICATION Spec
CONSTANTS
  SIZE_MOD = 8
  NONE = NONE
  t3 = t3
  t1 = t1
  t2 = t2
  Thread = {t1, t2}
  MaxRequests = 2
  MaxInFlight = 1
  Patient = FALSE
  max_length = 2
  Shape <- KeepAliveShapes
  Parts = {1}
INVARIANTS
  AnswersMatch
CHECK_DEADLOCK FALSE
